---- MODULE Spec2Model ----
(***************************************************************************)
(* A model of dgit's local repository core: the object codec and loose     *)
(* object database (src/src/objects), the reference store (src/src/refs),  *)
(* the index and the commit pipeline (src/src/core), and the three-way     *)
(* merge (src/src/merge).                                                  *)
(*                                                                         *)
(* Byte strings (std::string) are sequences of one-character strings; the  *)
(* byte 0 is the element NUL.  SHA1::hash is modelled as a collision-free  *)
(* digest: the digest of a byte string is that string behind the marker    *)
(* "#", which is no byte of any input, so two digests are equal iff the    *)
(* hashed byte strings are equal.                                          *)
(***************************************************************************)
EXTENDS Integers, Sequences, FiniteSets, TLC

VARIABLES
    objfiles,   \* objects/<id[0:2]>/<id[2:]>: the bytes of each loose object file
    cache,      \* ObjectDatabase::cache_ of the open instance
    writes,     \* per object id, the write_object calls made so far
    stored,     \* the objects passed to store on the open instance
    pending,    \* the store that is between opening its file and closing it
    cin,        \* codec run: the object kind and payload drawn
    cout,       \* codec run: what the codec produced for cin
    hasher,     \* a SHA1 object: its state words, buffer, length and flag
    shalog,     \* the bytes fed to the hasher and what its last call returned
    tree_obj,   \* a Tree object under construction
    add_calls,  \* the arguments of the add_entry calls on it, in call order
    pack,       \* a pack object header: what was written, the bytes, what was read
    remote,     \* a Remote: its url, its protocol_ session and the call in progress
    reffiles,   \* HEAD and refs/**: the first line of each reference file
    ref_cache,  \* Refs::ref_cache_ of the open instance
    reflog,     \* logs/<name>: the lines appended by log_ref_change
    lastref,    \* the last call made on the reference store
    worktree,   \* the working directory: content and mtime of each file
    entries,    \* Index::entries_ of the open repository
    path_index, \* Index::path_index_ of the open repository
    indexfile   \* the index file: the (path, blob id) records save wrote

objvars == <<objfiles, cache, writes, stored, pending>>
shavars == <<hasher, shalog>>
libvars == <<tree_obj, add_calls, pack, remote>>
codecvars == <<cin, cout, shavars, libvars>>
refvars == <<reffiles, ref_cache, reflog, lastref>>
repovars == <<worktree, entries, path_index, indexfile>>
vars == <<objfiles, cache, writes, stored, pending, cin, cout, hasher, shalog,
          tree_obj, add_calls, pack, remote,
          reffiles, ref_cache, reflog, lastref,
          worktree, entries, path_index, indexfile>>

ObjFrame == UNCHANGED <<codecvars, refvars, repovars>>
CodecFrame == UNCHANGED <<objvars, refvars, repovars>>
RefsFrame == UNCHANGED <<objvars, codecvars, repovars>>

\* an empty working directory and the index Index::Index finds without an
\* index file
RepoIdle ==
    /\ worktree = <<>>
    /\ entries = <<>>
    /\ path_index = <<>>
    /\ indexfile = [present |-> FALSE, records |-> <<>>]

\* ------------------------------------------------------------------ bounds
MaxLen == 2
MaxObjects == 3
MaxLog == 1
MaxCommits == 2

\* ------------------------------------------------------------- byte strings
NUL == "NUL"
SP == " "
LF == "LF"
Digits == <<"0", "1", "2", "3", "4", "5", "6", "7", "8", "9">>
HexChars == {"0", "1", "2", "3", "4", "5", "6", "7", "8", "9",
             "a", "b", "c", "d", "e", "f", "A", "B", "C", "D", "E", "F"}

RECURSIVE Decimal(_)
\* operator<<(ostream&, size_t): the decimal digits of n
Decimal(n) ==
    IF n < 10 THEN <<Digits[n + 1]>>
    ELSE Decimal(n \div 10) \o <<Digits[(n % 10) + 1]>>

RECURSIVE Concat(_)
Concat(ss) == IF ss = <<>> THEN <<>> ELSE Head(ss) \o Concat(Tail(ss))

\* std::string::find(c): the first position of c, 0 for npos
Find(s, c) ==
    IF \E i \in 1..Len(s) : s[i] = c
    THEN CHOOSE i \in 1..Len(s) : s[i] = c /\ \A j \in 1..(i - 1) : s[j] # c
    ELSE 0

\* operator<<(ostream&, const char*) of the literal "\0": a C string ends at
\* its first zero byte, so the literal is the empty string and no byte is
\* written.
CStrNulLiteral == <<>>

\* ------------------------------------------------------------------- SHA-1
SHA1hash(data) == <<"#">> \o data

IsDigest(s) == Len(s) >= 1 /\ s[1] = "#"

\* the 20 raw bytes of a 40-digit hex id (std::stoi of each digit pair)
RawId(id) == <<"<">> \o Tail(id) \o <<">">>

\* ----------------------------------------------------------------- objects
ObjectTypes == {"blob", "tree", "commit", "tag"}

Person(name, email, when) == [name |-> name, email |-> email, when |-> when]

NoPerson == Person(<<>>, <<>>, 0)

HeaderWord(type) ==
    CASE type = "blob" -> <<"b", "l", "o", "b">>
      [] type = "tree" -> <<"t", "r", "e", "e">>
      [] type = "commit" -> <<"c", "o", "m", "m", "i", "t">>
      [] type = "tag" -> <<"t", "a", "g">>

\* Object::compute_id: the bytes that are hashed
IdBytes(type, data) ==
    HeaderWord(type) \o <<SP>> \o Decimal(Len(data)) \o CStrNulLiteral \o data

compute_id(type, data) == SHA1hash(IdBytes(type, data))

\* Object::Object(type, data), with the fields of the four classes
Object(type, data) ==
    [type |-> type, data |-> data, id |-> compute_id(type, data),
     entries |-> <<>>, tree_id |-> <<>>, parent_ids |-> <<>>,
     author |-> NoPerson, committer |-> NoPerson, message |-> <<>>,
     object_id |-> <<>>, object_type |-> "blob", tag_name |-> <<>>,
     tagger |-> NoPerson]

Blob(content) == Object("blob", content)

EmptyTree == Object("tree", <<>>)

\* FileMode as the int that Tree::add_entry prints
FileModeInt(mode) ==
    CASE mode = "Regular" -> 33188
      [] mode = "Executable" -> 33261
      [] mode = "Directory" -> 16384

TreeEntry(mode, id, name) == [mode |-> mode, id |-> id, name |-> name]

\* the characters of the names the model uses, in ASCII order
CharOrder == <<".", "/", "a", "b", "c", "d", "g", "i", "t">>

Ord(c) == CHOOSE i \in 1..Len(CharOrder) : CharOrder[i] = c

RECURSIVE StrLess(_, _)
\* std::string operator<
StrLess(a, b) ==
    IF b = <<>> THEN FALSE
    ELSE IF a = <<>> THEN TRUE
    ELSE IF Head(a) = Head(b) THEN StrLess(Tail(a), Tail(b))
    ELSE Ord(Head(a)) < Ord(Head(b))

\* std::sort of entries_ by name after emplace_back of e; the entries before
\* e were sorted by the previous call, and the names of one directory differ
SortByName(tree_entries, e) ==
    LET before == SelectSeq(tree_entries, LAMBDA x : ~StrLess(e.name, x.name))
        after == SelectSeq(tree_entries, LAMBDA x : StrLess(e.name, x.name))
    IN before \o <<e>> \o after

RECURSIVE TreeData(_)
\* the loop of Tree::add_entry that rebuilds data_
TreeData(tree_entries) ==
    IF tree_entries = <<>> THEN <<>>
    ELSE Decimal(FileModeInt(Head(tree_entries).mode)) \o <<SP>> \o Head(tree_entries).name
         \o CStrNulLiteral \o RawId(Head(tree_entries).id) \o TreeData(Tail(tree_entries))

\* Tree::add_entry: emplace_back, sort, rebuild data_, recompute_id
add_entry(tree, mode, id, name) ==
    LET es == SortByName(tree.entries, TreeEntry(mode, id, name))
        d == TreeData(es)
    IN [tree EXCEPT !.entries = es, !.data = d, !.id = compute_id("tree", d)]

PersonLine(word, p) ==
    word \o <<SP>> \o p.name \o <<SP, "<">> \o p.email \o <<">", SP>>
    \o Decimal(p.when) \o <<LF>>

RECURSIVE ParentLines(_)
ParentLines(ps) ==
    IF ps = <<>> THEN <<>>
    ELSE <<"p", "a", "r", "e", "n", "t", SP>> \o Head(ps) \o <<LF>>
         \o ParentLines(Tail(ps))

\* Commit::Commit(tree_id, parent_ids, author, committer, message)
Commit(tree_id, parent_ids, author, committer, message) ==
    LET d == <<"t", "r", "e", "e", SP>> \o tree_id \o <<LF>>
             \o ParentLines(parent_ids)
             \o PersonLine(<<"a", "u", "t", "h", "o", "r">>, author)
             \o PersonLine(<<"c", "o", "m", "m", "i", "t", "t", "e", "r">>, committer)
             \o <<LF>> \o message
    IN [Object("commit", d) EXCEPT !.tree_id = tree_id, !.parent_ids = parent_ids,
            !.author = author, !.committer = committer, !.message = message]

\* Commit::Commit()
EmptyCommit == Object("commit", <<>>)

\* Tag::Tag(object_id, object_type, tag_name, tagger, message)
Tag(object_id, object_type, tag_name, tagger, message) ==
    LET d == <<"o", "b", "j", "e", "c", "t", SP>> \o object_id \o <<LF>>
             \o <<"t", "y", "p", "e", SP>> \o HeaderWord(object_type) \o <<LF>>
             \o <<"t", "a", "g", SP>> \o tag_name \o <<LF>>
             \o PersonLine(<<"t", "a", "g", "g", "e", "r">>, tagger)
             \o <<LF>> \o message
    IN [Object("tag", d) EXCEPT !.object_id = object_id, !.object_type = object_type,
            !.tag_name = tag_name, !.tagger = tagger, !.message = message]

\* Object::serialize
serialize(object) == object.data

\* the result of a call that returns an object or throws
NoObject == [Object("blob", <<>>) EXCEPT !.type = "none", !.id = <<>>]

Returned(object) == [ok |-> TRUE, obj |-> object, err |-> "none"]

Thrown(err) == [ok |-> FALSE, obj |-> NoObject, err |-> err]

\* Object::deserialize
deserialize(raw_data) ==
    LET null_pos == Find(raw_data, NUL)
        header == SubSeq(raw_data, 1, null_pos - 1)
        content == SubSeq(raw_data, null_pos + 1, Len(raw_data))
        space_pos == Find(header, SP)
        type_str == SubSeq(header, 1, space_pos - 1)
    IN IF null_pos = 0 THEN Thrown("no null terminator")
       ELSE IF space_pos = 0 THEN Thrown("no space")
       ELSE IF type_str = HeaderWord("blob") THEN Returned(Blob(content))
       ELSE IF type_str = HeaderWord("tree") THEN Returned(EmptyTree)
       ELSE IF type_str = HeaderWord("commit") THEN Returned(EmptyCommit)
       ELSE IF type_str = HeaderWord("tag")
            THEN Returned(Tag(<<>>, "blob", <<>>, NoPerson, <<>>))
       ELSE Thrown("unknown object type")

\* ---------------------------------------------------------- object database
ZHead == "zlib"
ZEnd == "Z_STREAM_END"

\* compress_data: a zlib stream, which ends with its end-of-stream marker
compress_data(data) == <<ZHead>> \o data \o <<ZEnd>>

\* decompress_data throws unless inflate reaches Z_STREAM_END
CanDecompress(c) == Len(c) >= 2 /\ c[1] = ZHead /\ c[Len(c)] = ZEnd

decompress_data(c) == SubSeq(c, 2, Len(c) - 1)

\* store framing the payload with a zero byte that compute_id does not hash
FullDataWithNul(object) ==
    HeaderWord(object.type) \o <<SP>> \o Decimal(Len(serialize(object)))
    \o <<NUL>> \o serialize(object)

\* ObjectDatabase::store: the framed bytes that are compressed and written
FullData(object) ==
    HeaderWord(object.type) \o <<SP>> \o Decimal(Len(serialize(object)))
    \o CStrNulLiteral \o serialize(object)

\* ObjectDatabase::exists: fs::exists of the object's path
exists(id) == id \in DOMAIN objfiles

\* ObjectDatabase::load, as a function of a cache and the files: the result
\* returned or the exception thrown
LoadFrom(c, id) ==
    IF id \in DOMAIN c THEN Returned(c[id])
    ELSE IF ~exists(id) THEN Thrown("object not found")
    ELSE IF ~CanDecompress(objfiles[id]) THEN Thrown("failed to decompress")
    ELSE deserialize(decompress_data(objfiles[id]))

NoCache == <<>>

\* load on the open instance, and on an instance freshly opened on the gitdir
LoadResult(id) == LoadFrom(cache, id)

FreshLoadResult(id) == LoadFrom(NoCache, id)

WritesOf(id) == IF id \in DOMAIN writes THEN writes[id] ELSE 0

\* store without its early return for an object that exists
store_without_exists_check(object) ==
    /\ objfiles' = (object.id :> compress_data(FullData(object))) @@ objfiles
    /\ writes' = (object.id :> WritesOf(object.id) + 1) @@ writes
    /\ cache' = (object.id :> object) @@ cache
    /\ stored' = stored \cup {object}
    /\ UNCHANGED pending

\* ObjectDatabase::store, with write_object
store(object) ==
    /\ IF exists(object.id)
       THEN UNCHANGED <<objfiles, cache, writes>>
       ELSE /\ objfiles' = (object.id :> compress_data(FullData(object))) @@ objfiles
            /\ writes' = (object.id :> WritesOf(object.id) + 1) @@ writes
            /\ cache' = (object.id :> object) @@ cache
    /\ stored' = stored \cup {object}
    /\ UNCHANGED pending

\* ObjectDatabase::load: a result read from the file is put into the cache
load(id) ==
    /\ cache' = IF id \notin DOMAIN cache /\ LoadResult(id).ok
                THEN (id :> LoadResult(id).obj) @@ cache
                ELSE cache
    /\ UNCHANGED <<objfiles, writes, stored, pending>>

\* ObjectDatabase::ObjectDatabase on the same gitdir: a new process opens the
\* repository with an empty cache
Reopen ==
    /\ cache' = NoCache
    /\ stored' = {}
    /\ UNCHANGED <<objfiles, writes, pending>>

\* ------------------------------------------------------------------ inputs
RECURSIVE SeqsUpTo(_, _)
SeqsUpTo(S, n) ==
    IF n = 0 THEN {<<>>}
    ELSE LET shorter == SeqsUpTo(S, n - 1)
         IN shorter \cup {Append(s, x) : s \in shorter, x \in S}

Payloads == SeqsUpTo({"a", NUL}, MaxLen)

SomePerson == Person(<<"A">>, <<"a", "@", "x">>, 17)

TreeOfA == add_entry(EmptyTree, "Regular", Blob(<<"a">>).id, <<"a">>)

CommitOfA == Commit(TreeOfA.id, <<>>, SomePerson, SomePerson, <<"m">>)

TagOfA == Tag(CommitOfA.id, "commit", <<"t">>, SomePerson, <<"m">>)

ObjectInputs ==
    {Blob(b) : b \in Payloads} \cup {EmptyTree, TreeOfA, CommitOfA, TagOfA}

IdInputs == {o.id : o \in ObjectInputs}

\* ---------------------------------------------------------- reference store
\* A reference name and a path under the gitdir are sequences of their
\* '/'-separated components; the line of a symbolic reference is the element
\* "ref: " followed by the components of its target.
Some(v) == [kind |-> "some", val |-> v]
None == [kind |-> "none", val |-> <<>>]
Throws == [kind |-> "throw", val |-> <<>>]
Diverges == [kind |-> "diverge", val |-> <<>>]

HeadName == <<"HEAD">>

\* Refs::get_ref_path
get_ref_path(name) ==
    IF name = HeadName THEN [ok |-> TRUE, path |-> HeadName]
    ELSE IF Len(name) >= 2 /\ name[1] = "refs" THEN [ok |-> TRUE, path |-> name]
    ELSE IF Len(name) = 1 THEN [ok |-> TRUE, path |-> <<"refs", "heads">> \o name]
    ELSE [ok |-> FALSE, path |-> <<>>]

\* the directories the Refs constructor creates, and the gitdir itself
RefDirs == {<<>>, <<"refs">>, <<"refs", "heads">>, <<"refs", "tags">>,
            <<"refs", "remotes">>}

\* std::ofstream file(path) opens: the parent directory exists and the path
\* is no directory
CanWrite(path) ==
    /\ path # <<>>
    /\ SubSeq(path, 1, Len(path) - 1) \in RefDirs
    /\ path \notin RefDirs

IsSymLine(line) == Len(line) >= 1 /\ line[1] = "ref: "

\* the SHA-1 validation of read_ref_file; SHA1::hash returns 40 hex digits
IsSha1Line(line) ==
    IF IsDigest(line) THEN TRUE
    ELSE Len(line) = 40 /\ \A i \in 1..Len(line) : line[i] \in HexChars

RECURSIVE read_ref_file(_, _, _)
\* Refs::read_ref_file; it calls itself on the target of a symbolic line with
\* no depth limit and with its own file still open, so on a cycle (fuel runs
\* out) the recursion only ends when the process has no file descriptor or
\* no stack left
read_ref_file(files, path, fuel) ==
    IF path \notin DOMAIN files THEN None
    ELSE LET line == files[path]
             t == get_ref_path(Tail(line))
         IN IF IsSymLine(line)
            THEN IF ~t.ok THEN Throws
                 ELSE IF fuel = 0 THEN Diverges
                 ELSE read_ref_file(files, t.path, fuel - 1)
            ELSE IF IsSha1Line(line) THEN Some(line)
            ELSE None

Fuel(files) == Cardinality(DOMAIN files)

NoRefCache == <<>>

\* Refs::resolve_ref: the value returned (ok) or an exception, and the cache
\* afterwards
resolve_ref(c, files, name) ==
    LET p == get_ref_path(name)
        r == read_ref_file(files, p.path, Fuel(files))
    IN IF name \in DOMAIN c THEN [ok |-> TRUE, val |-> c[name], cache |-> c]
       ELSE IF ~p.ok \/ p.path \notin DOMAIN files \/ r.kind # "some"
       THEN [ok |-> FALSE, val |-> <<>>, cache |-> c]
       ELSE [ok |-> TRUE, val |-> r.val, cache |-> (name :> r.val) @@ c]

\* Refs::read_ref
read_ref(c, files, name) ==
    LET p == get_ref_path(name)
    IN IF name \in DOMAIN c THEN Some(c[name])
       ELSE IF ~p.ok THEN Throws
       ELSE IF p.path \notin DOMAIN files THEN None
       ELSE read_ref_file(files, p.path, Fuel(files))

\* Refs::get_head
get_head(c, files) ==
    IF HeadName \notin DOMAIN files THEN [ok |-> FALSE, val |-> <<>>, cache |-> c]
    ELSE IF IsSymLine(files[HeadName]) THEN resolve_ref(c, files, Tail(files[HeadName]))
    ELSE [ok |-> TRUE, val |-> files[HeadName], cache |-> c]

\* Refs::load_ref_cache, called by the constructor: HEAD, then the files of
\* refs/heads and refs/tags; a reference that throws is skipped
load_ref_cache(files) ==
    LET h == get_head(NoRefCache, files)
        c1 == IF h.ok THEN (HeadName :> h.val) @@ h.cache ELSE NoRefCache
        listed == {p \in DOMAIN files :
                      Len(p) = 3 /\ p[1] = "refs" /\ p[2] \in {"heads", "tags"}}
        good == {n \in listed : resolve_ref(c1, files, n).ok}
    IN [n \in good \cup DOMAIN c1 |->
           IF n \in DOMAIN c1 THEN c1[n] ELSE resolve_ref(c1, files, n).val]

LogOf(name) == IF name \in DOMAIN reflog THEN reflog[name] ELSE <<>>

\* Refs::log_ref_change: only logs/ is created, so the append succeeds for a
\* name of one component and fails silently otherwise; a line holds new_id
\* first and old_id second
log_ref_change(name, old_id, new_id) ==
    IF Len(name) = 1
    THEN (name :> Append(LogOf(name), <<new_id, old_id>>)) @@ reflog
    ELSE reflog

Called(op, name, target, ok) ==
    [op |-> op, name |-> name, target |-> target, ok |-> ok]

Without(f, k) == [x \in DOMAIN f \ {k} |-> f[x]]

\* Refs::create_ref of a direct reference
create_ref(name, target) ==
    LET p == get_ref_path(name)
    IN IF ~p.ok \/ ~CanWrite(p.path)
       THEN /\ lastref' = Called("create_ref", name, target, FALSE)
            /\ UNCHANGED <<reffiles, ref_cache, reflog>>
       ELSE /\ reffiles' = (p.path :> target) @@ reffiles
            /\ ref_cache' = (name :> target) @@ ref_cache
            /\ reflog' = log_ref_change(name, <<>>, target)
            /\ lastref' = Called("create_ref", name, target, TRUE)

\* Refs::update_ref on a cache and the files: whether it returned (ok) or
\* threw, and the files, the cache and the reflog afterwards
update_ref_on(c, files, name, target) ==
    LET p == get_ref_path(name)
        r == resolve_ref(c, files, name)
    IN IF ~p.ok \/ p.path \notin DOMAIN files \/ ~r.ok
       THEN [ok |-> FALSE, files |-> files, cache |-> c, log |-> reflog]
       ELSE [ok |-> TRUE,
             files |-> (p.path :> target) @@ files,
             cache |-> (name :> target) @@ r.cache,
             log |-> log_ref_change(name, r.val, target)]

\* Refs::update_ref
update_ref(name, target) ==
    LET u == update_ref_on(ref_cache, reffiles, name, target)
    IN /\ reffiles' = u.files
       /\ ref_cache' = u.cache
       /\ reflog' = u.log
       /\ lastref' = Called("update_ref", name, target, u.ok)

\* Refs::ref_exists
ref_exists(files, name) ==
    get_ref_path(name).ok /\ get_ref_path(name).path \in DOMAIN files

\* a delete_ref that removes the file and leaves the cache entry
delete_ref_keeping_cache(name) ==
    LET p == get_ref_path(name)
        r == resolve_ref(ref_cache, reffiles, name)
    IN IF ~p.ok \/ p.path \notin DOMAIN reffiles \/ ~r.ok
       THEN /\ lastref' = Called("delete_ref", name, <<>>, FALSE)
            /\ UNCHANGED <<reffiles, ref_cache, reflog>>
       ELSE /\ reffiles' = Without(reffiles, p.path)
            /\ ref_cache' = r.cache
            /\ reflog' = log_ref_change(name, r.val, <<>>)
            /\ lastref' = Called("delete_ref", name, <<>>, TRUE)

\* Refs::delete_ref
delete_ref(name) ==
    LET p == get_ref_path(name)
        r == resolve_ref(ref_cache, reffiles, name)
    IN IF ~p.ok \/ p.path \notin DOMAIN reffiles \/ ~r.ok
       THEN /\ lastref' = Called("delete_ref", name, <<>>, FALSE)
            /\ UNCHANGED <<reffiles, ref_cache, reflog>>
       ELSE /\ reffiles' = Without(reffiles, p.path)
            /\ ref_cache' = Without(r.cache, name)
            /\ reflog' = log_ref_change(name, r.val, <<>>)
            /\ lastref' = Called("delete_ref", name, <<>>, TRUE)

\* Refs::set_head
set_head(commit_id) ==
    /\ reffiles' = (HeadName :> commit_id) @@ reffiles
    /\ ref_cache' = (HeadName :> commit_id) @@ ref_cache
    /\ lastref' = Called("set_head", HeadName, commit_id, TRUE)
    /\ UNCHANGED reflog

\* Refs::set_head_to_branch: HEAD is written before the branch is resolved
set_head_to_branch(branch_name) ==
    LET full == <<"refs", "heads", branch_name>>
        files == (HeadName :> (<<"ref: ">> \o full)) @@ reffiles
        r == resolve_ref(ref_cache, files, full)
    IN /\ reffiles' = files
       /\ ref_cache' = IF r.ok THEN (HeadName :> r.val) @@ r.cache ELSE ref_cache
       /\ lastref' = Called("set_head_to_branch", full, <<>>, r.ok)
       /\ UNCHANGED reflog

\* a call of Refs::resolve_ref by a command
resolve_ref_call(name) ==
    /\ ref_cache' = resolve_ref(ref_cache, reffiles, name).cache
    /\ lastref' = Called("resolve_ref", name, <<>>,
                         resolve_ref(ref_cache, reffiles, name).ok)
    /\ UNCHANGED <<reffiles, reflog>>

\* Refs::Refs on the same gitdir: a new process opens the repository
RefsOpen ==
    /\ ref_cache' = load_ref_cache(reffiles)
    /\ lastref' = Called("open", <<>>, <<>>, TRUE)
    /\ UNCHANGED <<reffiles, reflog>>

MasterRef == <<"refs", "heads", "master">>

\* Repository::create: the constructor opens Refs on the gitdir, then
\* Repository::init writes HEAD and creates refs/heads/master with the
\* empty string as its value
RepositoryInit ==
    LET files == (HeadName :> (<<"ref: ">> \o MasterRef)) @@ reffiles
    IN /\ reffiles' = (MasterRef :> <<>>) @@ files
       /\ ref_cache' = (MasterRef :> <<>>) @@ load_ref_cache(reffiles)
       /\ reflog' = log_ref_change(MasterRef, <<>>, <<>>)
       /\ lastref' = Called("create_ref", MasterRef, <<>>, TRUE)

\* the reference store a Refs constructor finds in an empty gitdir
RefsIdle ==
    /\ reffiles = <<>>
    /\ ref_cache = NoRefCache
    /\ reflog = <<>>
    /\ lastref = Called("open", <<>>, <<>>, TRUE)

\* --------------------------------------------- object database specification
ObjInit ==
    /\ objfiles = <<>>
    /\ cache = NoCache
    /\ writes = <<>>
    /\ stored = {}
    /\ pending = [active |-> FALSE, obj |-> NoObject]

\* no pack object header was written
NoPack ==
    [type |-> 0, size |-> 0, bytes |-> <<>>, state |-> "idle",
     read_type |-> 0, read_size |-> 0, consumed |-> 0]

PackIdle == pack = NoPack

\* no Remote was constructed
RemoteIdle ==
    remote = [url |-> <<>>, protocol |-> "null", transport |-> "none",
              connected |-> FALSE, op |-> "none", pc |-> "idle",
              exchanges |-> 0, lines |-> 0, result |-> "none"]

\* no Tree, PackWriter or Remote is in use
LibIdle ==
    /\ tree_obj = EmptyTree
    /\ add_calls = <<>>
    /\ PackIdle
    /\ RemoteIdle

\* no hasher is in use
ShaIdle ==
    /\ hasher = [order |-> "little", h |-> <<>>, buffer |-> <<>>,
                 message_length |-> 0, finalized |-> FALSE]
    /\ shalog = [fed |-> <<>>, updates |-> 0, op |-> "none", ok |-> TRUE,
                 digest |-> "", first |-> ""]

CodecIdle ==
    /\ cin = [type |-> "blob", data |-> <<>>]
    /\ cout = [done |-> FALSE, hashed |-> <<>>, written |-> <<>>,
               decoded |-> Thrown("none"), reread |-> Thrown("none")]
    /\ ShaIdle
    /\ LibIdle

Store ==
    \E o \in ObjectInputs :
        /\ exists(o.id) \/ Cardinality(DOMAIN objfiles) < MaxObjects
        /\ store(o)
        /\ ObjFrame

Load == \E id \in IdInputs : load(id) /\ ObjFrame

NewInstance == Reopen /\ ObjFrame

Init == ObjInit /\ CodecIdle /\ RefsIdle /\ RepoIdle

Next == Store \/ Load \/ NewInstance

Spec == Init /\ [][Next]_vars

\* C1: every object passed to store on the open instance exists afterwards,
\* and load of its id on that instance returns an object of the same kind
\* with the same payload, whatever stores and loads came in between.
C1_StoreThenLoad ==
    \A o \in stored :
        /\ exists(o.id)
        /\ LoadResult(o.id).ok
        /\ LoadResult(o.id).obj.type = o.type
        /\ LoadResult(o.id).obj.data = o.data

\* C4 (I1): the SHA-1 of the inflated content of every loose object file is
\* the object id that names the file.
C4_Integrity ==
    \A id \in DOMAIN objfiles :
        /\ CanDecompress(objfiles[id])
        /\ SHA1hash(decompress_data(objfiles[id])) = id

C4_Witness ==
    /\ exists(TreeOfA.id)
    /\ exists(Blob(<<NUL, "a">>).id)
    /\ exists(CommitOfA.id)

\* C5: for every id in the cache of the instance that stored it, load served
\* from the cache and load by a freshly opened instance, from the loose file,
\* return equal objects.
C5_CacheTransparent ==
    \A id \in DOMAIN cache : FreshLoadResult(id) = Returned(cache[id])

\* C7: objects are write-once and store is idempotent: no step changes the
\* bytes stored under an id that exists, nor calls write_object for it again.
C7_WriteOnce ==
    [][\A id \in DOMAIN objfiles :
          /\ id \in DOMAIN objfiles'
          /\ objfiles'[id] = objfiles[id]
          /\ writes'[id] = writes[id]]_vars

\* store was called, on an instance that had not written it, for an object
\* that another instance had stored
C7_Witness ==
    \E o \in stored :
        /\ exists(o.id)
        /\ o.id \notin DOMAIN cache
        /\ writes[o.id] = 1

\* ------------------------------------------------------ codec specification
LongPayload == [i \in 1..10 |-> "a"]

CodecPayloads == SeqsUpTo({"a", "b", NUL}, MaxLen) \cup {LongPayload}

CodecInit ==
    /\ cin \in [type : ObjectTypes, data : CodecPayloads]
    /\ cout = [done |-> FALSE, hashed |-> <<>>, written |-> <<>>,
               decoded |-> Thrown("none"), reread |-> Thrown("none")]
    /\ ShaIdle
    /\ LibIdle
    /\ ObjInit
    /\ RefsIdle
    /\ RepoIdle

\* one run of the codec on cin: the bytes compute_id hashes, the bytes store
\* compresses, Object::deserialize of those bytes, and Object::deserialize
\* of serialize()
Encode ==
    /\ ~cout.done
    /\ LET object == Object(cin.type, cin.data)
       IN cout' = [done |-> TRUE,
                   hashed |-> IdBytes(cin.type, cin.data),
                   written |-> FullData(object),
                   decoded |-> deserialize(FullData(object)),
                   reread |-> deserialize(serialize(object))]
    /\ UNCHANGED <<cin, shavars, libvars>>
    /\ CodecFrame

CodecNext == Encode

SpecCodec == CodecInit /\ [][CodecNext]_vars

\* the framed form of the specification: kind word, one space, the decimal
\* payload length, one zero byte, the payload
GitFrame(type, data) ==
    HeaderWord(type) \o <<SP>> \o Decimal(Len(data)) \o <<NUL>> \o data

\* C2: for every kind and payload, the bytes hashed for the object id and
\* the bytes deflated and stored are both the framed form: kind word, space,
\* decimal length, one zero byte, payload.
C2_Framing ==
    cout.done =>
        /\ cout.hashed = GitFrame(cin.type, cin.data)
        /\ cout.written = GitFrame(cin.type, cin.data)

\* C3: for every byte string b, decoding the encoded form of the blob with
\* payload b yields a blob whose data is b.
C3_BlobRoundTrip ==
    (cout.done /\ cin.type = "blob") =>
        /\ cout.decoded.ok
        /\ cout.decoded.obj.type = "blob"
        /\ cout.decoded.obj.data = cin.data

\* ------------------------------------------------- interrupted store, steps
\* store up to the std::ofstream constructor of write_object: the file is
\* created, empty, under the object's final path
BeginStore(object) ==
    /\ ~pending.active
    /\ IF exists(object.id)
       THEN /\ stored' = stored \cup {object}
            /\ UNCHANGED <<objfiles, cache, writes, pending>>
       ELSE /\ objfiles' = (object.id :> <<>>) @@ objfiles
            /\ writes' = (object.id :> WritesOf(object.id) + 1) @@ writes
            /\ pending' = [active |-> TRUE, obj |-> object]
            /\ UNCHANGED <<cache, stored>>

\* file.write: the stream hands a further part of the bytes to the file
WritePart ==
    /\ pending.active
    /\ LET id == pending.obj.id
           full == compress_data(FullData(pending.obj))
       IN \E n \in (Len(objfiles[id]) + 1)..(Len(full) - 1) :
              objfiles' = [objfiles EXCEPT ![id] = SubSeq(full, 1, n)]
    /\ UNCHANGED <<cache, writes, stored, pending>>

\* the stream is closed as write_object returns, and store fills the cache
EndStore ==
    /\ pending.active
    /\ LET object == pending.obj
       IN /\ objfiles' = [objfiles EXCEPT
                              ![object.id] = compress_data(FullData(object))]
          /\ cache' = (object.id :> object) @@ cache
          /\ stored' = stored \cup {object}
    /\ pending' = [active |-> FALSE, obj |-> NoObject]
    /\ UNCHANGED writes

\* the process is terminated; the files stay as they are and the next
\* process opens the repository
Interrupt ==
    /\ cache' = NoCache
    /\ stored' = {}
    /\ pending' = [active |-> FALSE, obj |-> NoObject]
    /\ UNCHANGED <<objfiles, writes>>

CrashInputs == {Blob(<<>>), Blob(<<NUL>>), EmptyTree}

CrashStore ==
    \E o \in CrashInputs :
        /\ exists(o.id) \/ Cardinality(DOMAIN objfiles) < MaxObjects
        /\ BeginStore(o)
        /\ ObjFrame

CrashWrite == WritePart /\ ObjFrame

CrashEnd == EndStore /\ ObjFrame

CrashInterrupt == Interrupt /\ ObjFrame

CrashLoad ==
    /\ ~pending.active
    /\ \E o \in CrashInputs : load(o.id)
    /\ ObjFrame

CrashNext == CrashStore \/ CrashWrite \/ CrashEnd \/ CrashInterrupt \/ CrashLoad

SpecCrash == Init /\ [][CrashNext]_vars

\* C8: when no store is running (also after a store was interrupted), every
\* object id for which exists is true has its complete deflated framed
\* object on disk.
C8_CrashAtomic ==
    ~pending.active =>
        \A id \in DOMAIN objfiles :
            /\ CanDecompress(objfiles[id])
            /\ SHA1hash(decompress_data(objfiles[id])) = id

\* ------------------------------------------- reference store specification
SecondCommit == Commit(TreeOfA.id, <<CommitOfA.id>>, SomePerson, SomePerson, <<"n">>)

OidInputs == {CommitOfA.id, SecondCommit.id}

DevRef == <<"refs", "heads", "dev">>

RefNameInputs == {HeadName, MasterRef, DevRef}

BranchInputs == {"master", "dev"}

\* the reflog of a name is kept within MaxLog lines
LogRoom(name) == Len(name) = 1 => Len(LogOf(name)) < MaxLog

RefsInit == ObjInit /\ CodecIdle /\ RefsIdle /\ RepoIdle

InitRepo == RepositoryInit /\ RefsFrame

CreateRef ==
    \E name \in RefNameInputs, target \in OidInputs :
        LogRoom(name) /\ create_ref(name, target) /\ RefsFrame

UpdateRef ==
    \E name \in RefNameInputs, target \in OidInputs :
        LogRoom(name) /\ update_ref(name, target) /\ RefsFrame

DeleteRef ==
    \E name \in RefNameInputs :
        LogRoom(name) /\ delete_ref(name) /\ RefsFrame

SetHead == \E id \in OidInputs : set_head(id) /\ RefsFrame

SetHeadToBranch == \E b \in BranchInputs : set_head_to_branch(b) /\ RefsFrame

ResolveRef == \E name \in RefNameInputs : resolve_ref_call(name) /\ RefsFrame

OpenRefs == RefsOpen /\ RefsFrame

RefsNext ==
    \/ InitRepo
    \/ CreateRef
    \/ UpdateRef
    \/ DeleteRef
    \/ SetHead
    \/ SetHeadToBranch
    \/ ResolveRef
    \/ OpenRefs

SpecRefs == RefsInit /\ [][RefsNext]_vars

\* C9: right after a successful create_ref(r, new) or update_ref(r, new),
\* read_ref(r) returns new on the instance that wrote it and on a Refs
\* instance freshly opened on the gitdir.
C9_ReadAfterWrite ==
    (lastref.op \in {"create_ref", "update_ref"} /\ lastref.ok) =>
        /\ read_ref(ref_cache, reffiles, lastref.name) = Some(lastref.target)
        /\ read_ref(load_ref_cache(reffiles), reffiles, lastref.name)
               = Some(lastref.target)

\* C10: a create_ref (a write that expects the reference to be unborn) of a
\* reference whose file exists fails and leaves every reference file as it
\* was.
C10_CompareAndSet ==
    [][(/\ lastref'.op = "create_ref"
        /\ get_ref_path(lastref'.name).ok
        /\ get_ref_path(lastref'.name).path \in DOMAIN reffiles)
       => (~lastref'.ok /\ reffiles' = reffiles)]_vars

\* ---------------------------------------------------------------- index
\* A path of the working directory is the sequence of its components.
IndexEntry(path, blob_id, mode, mtime, size) ==
    [path |-> path, blob_id |-> blob_id, mode |-> mode, mtime |-> mtime,
     size |-> size]

\* SHA1::hash_file: the digest of the bytes of the file
hash_file(filepath) == SHA1hash(worktree[filepath].data)

RemoveAt(seq, i) == SubSeq(seq, 1, i - 1) \o SubSeq(seq, i + 1, Len(seq))

\* Index::update_path_index: the last position of each path
update_path_index(es) ==
    [p \in {es[i].path : i \in 1..Len(es)} |->
        CHOOSE i \in 1..Len(es) :
            es[i].path = p /\ \A j \in (i + 1)..Len(es) : es[j].path # p]

\* Index::add_entry for a path that stat finds: the entry of the path is
\* erased, the new entry is pushed back and path_index_ is rebuilt
index_add_entry(path, blob_id, mode) ==
    LET kept == IF path \in DOMAIN path_index
                THEN RemoveAt(entries, path_index[path])
                ELSE entries
        es == Append(kept, IndexEntry(path, blob_id, mode,
                                      worktree[path].mtime,
                                      Len(worktree[path].data)))
    IN /\ entries' = es
       /\ path_index' = update_path_index(es)

\* Index::add_file; hash_file throws for a file that cannot be opened and no
\* object is written
add_file(filepath) ==
    IF filepath \notin DOMAIN worktree
    THEN UNCHANGED <<entries, path_index>>
    ELSE index_add_entry(filepath, hash_file(filepath), "Regular")

\* Index::save: the path and the blob id of each entry
index_save(es) ==
    [present |-> TRUE,
     records |-> [i \in 1..Len(es) |->
                     [path |-> es[i].path, blob_id |-> es[i].blob_id]]]

\* Index::load: the entries of the index file, with mode Regular, mtime 0
\* and size 0
index_load(file) ==
    IF ~file.present THEN <<>>
    ELSE [i \in 1..Len(file.records) |->
             IndexEntry(file.records[i].path, file.records[i].blob_id,
                        "Regular", 0, 0)]

\* ------------------------------------------------------------ repository
IsPrefix(dir, path) ==
    Len(dir) < Len(path) /\ SubSeq(path, 1, Len(dir)) = dir

\* fs::directory_iterator(directory): the names of its files and directories
DirNames(dir) == {p[Len(dir) + 1] : p \in {q \in DOMAIN worktree : IsPrefix(dir, q)}}

\* the blob id write_tree_recursive puts into the tree for a regular file:
\* the id of the index entry, or of the blob written by write_blob
FileBlobId(path) ==
    IF path \in DOMAIN path_index THEN entries[path_index[path]].blob_id
    ELSE Blob(worktree[path].data).id

RECURSIVE write_tree_recursive(_, _)
\* Repository::write_tree_recursive: the Tree object of a directory; `todo`
\* holds the names of the directory not added yet
RECURSIVE TreeOfNames(_, _)
TreeOfNames(dir, todo) ==
    IF todo = {} THEN EmptyTree
    ELSE LET name == CHOOSE n \in todo : TRUE
             rest == TreeOfNames(dir, todo \ {name})
             path == Append(dir, name)
         IN IF path \in DOMAIN worktree
            THEN add_entry(rest, "Regular", FileBlobId(path), <<name>>)
            ELSE add_entry(rest, "Directory",
                           write_tree_recursive(path, path).id, <<name>>)

write_tree_recursive(directory, base_path) ==
    TreeOfNames(base_path, DirNames(directory))

RECURSIVE TreeObjects(_)
\* the objects write_tree_recursive passes to ObjectDatabase::store: the
\* blobs of the files that have no index entry, the subtrees and the tree
TreeObjects(dir) ==
    {write_tree_recursive(dir, dir)}
    \cup {Blob(worktree[Append(dir, n)].data) :
            n \in {m \in DirNames(dir) :
                     /\ Append(dir, m) \in DOMAIN worktree
                     /\ Append(dir, m) \notin DOMAIN path_index}}
    \cup UNION {TreeObjects(Append(dir, n)) :
                  n \in {m \in DirNames(dir) : Append(dir, m) \notin DOMAIN worktree}}

\* ObjectDatabase::store of each object of a set, on the files, the cache
\* and the write counts
StoreAllFiles(objs) ==
    [id \in DOMAIN objfiles \cup {o.id : o \in objs} |->
        IF id \in DOMAIN objfiles THEN objfiles[id]
        ELSE compress_data(FullData(CHOOSE o \in objs : o.id = id))]

StoreAllCache(objs) ==
    [id \in DOMAIN cache \cup {o.id : o \in objs \ {x \in objs : exists(x.id)}} |->
        IF id \in DOMAIN cache THEN cache[id]
        ELSE CHOOSE o \in objs : o.id = id]

StoreAllWrites(objs) ==
    [id \in DOMAIN writes \cup {o.id : o \in objs} |->
        IF id \in DOMAIN objfiles THEN writes[id] ELSE WritesOf(id) + 1]

store_all(objs) ==
    /\ objfiles' = StoreAllFiles(objs)
    /\ cache' = StoreAllCache(objs)
    /\ writes' = StoreAllWrites(objs)
    /\ stored' = stored \cup objs
    /\ UNCHANGED pending

\* Repository::commit with the index cleared before the reference is updated
commit_clearing_first(message, author, committer) ==
    LET h == get_head(ref_cache, reffiles)
        head_id == IF h.ok THEN h.val ELSE <<>>
        tree == write_tree_recursive(<<>>, <<>>)
        parents == IF head_id # <<>> THEN <<head_id>> ELSE <<>>
        c == Commit(tree.id, parents, author, committer, message)
        u == update_ref_on(h.cache, reffiles, MasterRef, c.id)
    IN IF Len(entries) = 0
       THEN UNCHANGED <<objvars, refvars, entries, path_index, indexfile>>
       ELSE /\ store_all(TreeObjects(<<>>) \cup {c})
            /\ reffiles' = u.files
            /\ ref_cache' = u.cache
            /\ reflog' = u.log
            /\ lastref' = Called("update_ref", MasterRef, c.id, u.ok)
            /\ entries' = <<>>
            /\ path_index' = <<>>
            /\ indexfile' = index_save(<<>>)

\* Repository::commit
commit(message, author, committer) ==
    LET h == get_head(ref_cache, reffiles)
        head_id == IF h.ok THEN h.val ELSE <<>>
        tree == write_tree_recursive(<<>>, <<>>)
        parents == IF head_id # <<>> THEN <<head_id>> ELSE <<>>
        c == Commit(tree.id, parents, author, committer, message)
        u == update_ref_on(h.cache, reffiles, MasterRef, c.id)
    IN IF Len(entries) = 0
       THEN UNCHANGED <<objvars, refvars, entries, path_index, indexfile>>
       ELSE /\ store_all(TreeObjects(<<>>) \cup {c})
            /\ reffiles' = u.files
            /\ ref_cache' = u.cache
            /\ reflog' = u.log
            /\ lastref' = Called("update_ref", MasterRef, c.id, u.ok)
            /\ IF u.ok
               THEN /\ entries' = <<>>
                    /\ path_index' = <<>>
                    /\ indexfile' = index_save(<<>>)
               ELSE UNCHANGED <<entries, path_index, indexfile>>

\* Repository::open: a new process opens the object database, the
\* reference store and the index of the gitdir
RepositoryOpen ==
    /\ cache' = NoCache
    /\ stored' = {}
    /\ ref_cache' = load_ref_cache(reffiles)
    /\ lastref' = Called("open", <<>>, <<>>, TRUE)
    /\ entries' = index_load(indexfile)
    /\ path_index' = update_path_index(index_load(indexfile))
    /\ UNCHANGED <<objfiles, writes, pending, reffiles, reflog, indexfile>>

\* ------------------------------------------------- repository specification
PathInputs == {<<"a">>, <<"d", "b">>}

ContentInputs == {<<"a">>}

TimeInputs == {1, 2}

\* the kind word of a framed object
FrameKind(frame) ==
    IF \E t \in ObjectTypes :
           SubSeq(frame, 1, Len(HeaderWord(t)) + 1) = HeaderWord(t) \o <<SP>>
    THEN CHOOSE t \in ObjectTypes :
           SubSeq(frame, 1, Len(HeaderWord(t)) + 1) = HeaderWord(t) \o <<SP>>
    ELSE "none"

KindOnDisk(id) ==
    IF exists(id) /\ CanDecompress(objfiles[id])
    THEN FrameKind(decompress_data(objfiles[id]))
    ELSE "none"

CommitsOnDisk == {id \in DOMAIN objfiles : KindOnDisk(id) = "commit"}

\* the repository Repository::create leaves in an empty directory
RepoInit ==
    /\ ObjInit
    /\ CodecIdle
    /\ reffiles = (HeadName :> (<<"ref: ">> \o MasterRef)) @@ (MasterRef :> <<>>)
    /\ ref_cache = (MasterRef :> <<>>)
    /\ reflog = <<>>
    /\ lastref = Called("create_ref", MasterRef, <<>>, TRUE)
    /\ RepoIdle

\* the user writes a file of the working directory
WriteFile ==
    \E path \in PathInputs, data \in ContentInputs, t \in TimeInputs :
        /\ worktree' = (path :> [data |-> data, mtime |-> t]) @@ worktree
        /\ UNCHANGED <<objvars, codecvars, refvars, entries, path_index, indexfile>>

AddFile ==
    \E path \in PathInputs :
        /\ add_file(path)
        /\ UNCHANGED <<objvars, codecvars, refvars, worktree, indexfile>>

SaveIndex ==
    /\ indexfile' = index_save(entries)
    /\ UNCHANGED <<objvars, codecvars, refvars, worktree, entries, path_index>>

DoCommit ==
    /\ Cardinality(CommitsOnDisk) < MaxCommits
    /\ commit(<<"m">>, SomePerson, SomePerson)
    /\ UNCHANGED <<codecvars, worktree>>

OpenRepo == RepositoryOpen /\ UNCHANGED <<codecvars, worktree>>

RepoNext == WriteFile \/ AddFile \/ SaveIndex \/ DoCommit \/ OpenRepo

SpecRepo == RepoInit /\ [][RepoNext]_vars

\* C6 (I2): every object id referenced from a commit or a tree that was
\* stored names an object of the object database of the required kind: the
\* tree and the parents of a commit, the blob or subtree of a tree entry.
C6_Closure ==
    \A o \in stored :
        /\ o.type = "commit" =>
              /\ KindOnDisk(o.tree_id) = "tree"
              /\ \A i \in 1..Len(o.parent_ids) :
                    KindOnDisk(o.parent_ids[i]) = "commit"
        /\ o.type = "tree" =>
              \A i \in 1..Len(o.entries) :
                  KindOnDisk(o.entries[i].id) =
                      (IF o.entries[i].mode = "Directory" THEN "tree" ELSE "blob")

\* ------------------------------------------- branches and HEAD, specification
\* Refs::get_head_branch: the branch HEAD names, if HEAD is symbolic and its
\* target is under refs/heads/
get_head_branch(files) ==
    IF /\ HeadName \in DOMAIN files
       /\ IsSymLine(files[HeadName])
       /\ Len(files[HeadName]) >= 4
       /\ SubSeq(files[HeadName], 2, 3) = <<"refs", "heads">>
    THEN Some(SubSeq(files[HeadName], 4, Len(files[HeadName])))
    ELSE None

BranchRef(branch_name) == <<"refs", "heads", branch_name>>

\* BranchCommand::execute with a branch name, BranchManager::create_branch
\* with no start point: the new branch gets the value of get_head
create_branch(name) ==
    LET h == get_head(ref_cache, reffiles)
    IN IF ~h.ok
       THEN /\ lastref' = Called("create_branch", BranchRef(name), <<>>, FALSE)
            /\ UNCHANGED <<reffiles, ref_cache, reflog>>
       ELSE /\ reffiles' = (BranchRef(name) :> h.val) @@ reffiles
            /\ ref_cache' = (BranchRef(name) :> h.val) @@ h.cache
            /\ reflog' = log_ref_change(BranchRef(name), <<>>, h.val)
            /\ lastref' = Called("create_branch", BranchRef(name), h.val, TRUE)

\* CheckoutCommand::execute writing the short name of the branch to HEAD
checkout_short_name(branch_name) ==
    LET r == resolve_ref(ref_cache, reffiles, BranchRef(branch_name))
    IN IF ~r.ok
       THEN /\ lastref' = Called("checkout", BranchRef(branch_name), <<>>, FALSE)
            /\ UNCHANGED <<reffiles, ref_cache, reflog>>
       ELSE /\ reffiles' = (HeadName :> <<"ref: ", branch_name>>) @@ reffiles
            /\ ref_cache' = (HeadName :> r.val) @@ r.cache
            /\ lastref' = Called("checkout", BranchRef(branch_name), r.val, TRUE)
            /\ UNCHANGED reflog

\* CheckoutCommand::execute: resolve_ref of the branch, then
\* set_head_to_branch
checkout(branch_name) ==
    LET r == resolve_ref(ref_cache, reffiles, BranchRef(branch_name))
    IN IF ~r.ok
       THEN /\ lastref' = Called("checkout", BranchRef(branch_name), <<>>, FALSE)
            /\ UNCHANGED <<reffiles, ref_cache, reflog>>
       ELSE /\ reffiles' = (HeadName :> (<<"ref: ">> \o BranchRef(branch_name)))
                               @@ reffiles
            /\ ref_cache' = (HeadName :> r.val) @@ r.cache
            /\ lastref' = Called("checkout", BranchRef(branch_name), r.val, TRUE)
            /\ UNCHANGED reflog

\* BranchManager::delete_branch without force: the current branch is
\* refused, any other is passed to Refs::delete_ref
delete_branch(name) ==
    LET current == get_head_branch(reffiles)
        r == resolve_ref(ref_cache, reffiles, BranchRef(name))
    IN IF \/ current = Some(<<name>>)
          \/ BranchRef(name) \notin DOMAIN reffiles
          \/ ~r.ok
       THEN /\ lastref' = Called("delete_branch", BranchRef(name), <<>>, FALSE)
            /\ UNCHANGED <<reffiles, ref_cache, reflog>>
       ELSE /\ reffiles' = Without(reffiles, BranchRef(name))
            /\ ref_cache' = Without(r.cache, BranchRef(name))
            /\ reflog' = log_ref_change(BranchRef(name), r.val, <<>>)
            /\ lastref' = Called("delete_branch", BranchRef(name), <<>>, TRUE)

RepoRefsFrame == UNCHANGED <<objvars, codecvars, repovars>>

CreateBranch == \E b \in BranchInputs : create_branch(b) /\ RepoRefsFrame

Checkout == \E b \in BranchInputs : checkout(b) /\ RepoRefsFrame

DeleteBranch == \E b \in BranchInputs : delete_branch(b) /\ RepoRefsFrame

\* Refs::set_head with the id of a commit of the object database
DetachHead ==
    \E id \in CommitsOnDisk : set_head(id) /\ RepoRefsFrame

\* the file the branch and HEAD scenarios edit and stage
HeadPaths == {<<"a">>}

HeadWriteFile ==
    \E path \in HeadPaths, data \in ContentInputs :
        /\ worktree' = (path :> [data |-> data, mtime |-> 1]) @@ worktree
        /\ UNCHANGED <<objvars, codecvars, refvars, entries, path_index, indexfile>>

HeadAddFile ==
    \E path \in HeadPaths :
        /\ add_file(path)
        /\ UNCHANGED <<objvars, codecvars, refvars, worktree, indexfile>>

HeadNext ==
    \/ HeadWriteFile
    \/ HeadAddFile
    \/ DoCommit
    \/ OpenRepo
    \/ CreateBranch
    \/ Checkout
    \/ DeleteBranch
    \/ DetachHead
    \/ SetHeadToBranch

SpecHead == RepoInit /\ [][HeadNext]_vars

\* a step of Repository::commit that returned
CommitReturned == DoCommit /\ entries # <<>> /\ lastref'.ok

BranchFiles(files) ==
    {r \in DOMAIN files : Len(r) >= 3 /\ SubSeq(r, 1, 2) = <<"refs", "heads">>}

\* C11: a commit that succeeds while HEAD is symbolic sets the branch HEAD
\* names to the id of the new commit and changes no other branch.
C11_CommitMovesHeadBranch ==
    [][(CommitReturned /\ get_head_branch(reffiles).kind = "some") =>
          LET b == <<"refs", "heads">> \o get_head_branch(reffiles).val
          IN /\ b \in DOMAIN reffiles'
             /\ reffiles'[b] = lastref'.target
             /\ \A r \in BranchFiles(reffiles) \ {b} :
                    r \in DOMAIN reffiles' /\ reffiles'[r] = reffiles[r]]_vars

\* ------------------------------------------------ command line, specification
\* InitCommand::execute writes HEAD and creates no branch; the next command
\* opens the repository it left
CliInit ==
    /\ ObjInit
    /\ CodecIdle
    /\ reffiles = (HeadName :> (<<"ref: ">> \o MasterRef))
    /\ ref_cache = load_ref_cache((HeadName :> (<<"ref: ">> \o MasterRef)))
    /\ reflog = <<>>
    /\ lastref = Called("open", <<>>, <<>>, TRUE)
    /\ RepoIdle

CliNext == HeadNext \/ SaveIndex

SpecCli == CliInit /\ [][CliNext]_vars

\* the null object id
Zeros == [i \in 1..40 |-> "0"]

MainRef == <<"refs", "heads", "main">>

\* C12: in a repository made by the init command, the first commit of a
\* staged file succeeds; afterwards HEAD is a symbolic reference to
\* refs/heads/main, that reference resolves to the new commit, and the reflog
\* of HEAD has one entry whose old value is 40 zeros.
C12_InitFirstCommit ==
    [][(DoCommit /\ entries # <<>> /\ CommitsOnDisk = {}) =>
          /\ lastref'.ok
          /\ reffiles'[HeadName] = <<"ref: ">> \o MainRef
          /\ read_ref_file(reffiles', MainRef, Fuel(reffiles')) = Some(lastref'.target)
          /\ Len(LogOf(HeadName)') = 1
          /\ LogOf(HeadName)'[1][1] = Zeros]_vars

\* the commit object a step of Repository::commit created
CreatedCommit == CHOOSE o \in stored' : o.type = "commit" /\ o.id = lastref'.target

\* the parent list of a commit made on the references `files`: the commit
\* HEAD resolves to, or none if HEAD is unborn
ParentsAt(files) ==
    LET h == read_ref_file(files, HeadName, Fuel(files))
    IN IF h.kind = "some" THEN <<h.val>> ELSE <<>>

\* C13: a commit has as its parents exactly the commit HEAD resolved to when
\* it was made (none if HEAD was unborn), and of two successive commits the
\* first is the only parent of the second, so that the first-parent chain
\* from the tip lists the commits newest first.
C13_ParentLinkage ==
    [][(DoCommit /\ entries # <<>>) =>
          /\ CreatedCommit.parent_ids = ParentsAt(reffiles)
          /\ (lastref'.ok /\ lastref.op = "update_ref" /\ lastref.ok) =>
                 CreatedCommit.parent_ids = <<lastref.target>>]_vars

\* a step of Repository::commit that threw: the index was empty or
\* update_ref failed
CommitThrew == DoCommit /\ (entries = <<>> \/ ~lastref'.ok)

RECURSIVE TreeFiles(_, _, _)
\* the files a tree of the set `objs` lists, each with its path below
\* `prefix` and its blob id, subtrees included
TreeFiles(objs, id, prefix) ==
    IF \A o \in objs : o.id # id THEN {}
    ELSE LET tree == CHOOSE o \in objs : o.id = id
         IN UNION {IF tree.entries[i].mode = "Directory"
                   THEN TreeFiles(objs, tree.entries[i].id,
                                  prefix \o tree.entries[i].name)
                   ELSE {<<prefix \o tree.entries[i].name, tree.entries[i].id>>} :
                   i \in 1..Len(tree.entries)}

\* C15: the tree of a commit lists exactly the paths of the index, each with
\* the blob id the index records; files that were never staged are absent.
C15_TreeFromIndex ==
    [][(DoCommit /\ entries # <<>>) =>
          TreeFiles(stored', CreatedCommit.tree_id, <<>>) =
              {<<entries[i].path, entries[i].blob_id>> : i \in 1..Len(entries)}]_vars

\* C16 (I6): the HEAD file exists and holds either a symbolic reference to
\* refs/heads/<branch> or an object id, after init and after every commit,
\* branch creation or deletion, checkout, set_head and set_head_to_branch,
\* failed ones included.
C16_HeadPresent ==
    /\ HeadName \in DOMAIN reffiles
    /\ \/ /\ IsSymLine(reffiles[HeadName])
          /\ Len(reffiles[HeadName]) = 4
          /\ SubSeq(reffiles[HeadName], 2, 3) = <<"refs", "heads">>
       \/ IsSha1Line(reffiles[HeadName])

\* HEAD was moved to another branch and an operation failed afterwards
C16_Witness ==
    /\ HeadName \in DOMAIN reffiles
    /\ reffiles[HeadName] = <<"ref: ">> \o DevRef
    /\ lastref.op \in {"delete_branch", "update_ref", "set_head_to_branch"}
    /\ ~lastref.ok

\* C17 (I3): every direct reference holds the id of an object that is
\* present in the object database.
C17_RefsPointToObjects ==
    \A r \in DOMAIN reffiles :
        ~IsSymLine(reffiles[r]) =>
            IsSha1Line(reffiles[r]) /\ exists(reffiles[r])

\* ------------------------------------- symbolic references, specification
\* Refs::create_symbolic_ref, Refs::create_ref with symbolic = true: the file
\* of the target must exist; the cache entry of the name is the target name
create_symbolic_ref(name, target) ==
    LET p == get_ref_path(name)
        t == get_ref_path(target)
    IN IF ~p.ok \/ ~t.ok \/ t.path \notin DOMAIN reffiles \/ ~CanWrite(p.path)
       THEN /\ lastref' = Called("create_symbolic_ref", name, target, FALSE)
            /\ UNCHANGED <<reffiles, ref_cache, reflog>>
       ELSE /\ reffiles' = (p.path :> (<<"ref: ">> \o target)) @@ reffiles
            /\ ref_cache' = (name :> target) @@ ref_cache
            /\ reflog' = log_ref_change(name, <<>>, target)
            /\ lastref' = Called("create_symbolic_ref", name, target, TRUE)

\* read_ref_file, called for a name the cache does not hold, recurses on a
\* cycle
ReadDiverges(c, files, name) ==
    /\ name \notin DOMAIN c
    /\ get_ref_path(name).ok
    /\ get_ref_path(name).path \in DOMAIN files
    /\ read_ref_file(files, get_ref_path(name).path, Fuel(files)).kind = "diverge"

\* load_ref_cache recurses on a cycle from HEAD or from a listed reference
LoadDiverges(files) ==
    \/ /\ HeadName \in DOMAIN files
       /\ IsSymLine(files[HeadName])
       /\ ReadDiverges(NoRefCache, files, Tail(files[HeadName]))
    \/ \E n \in DOMAIN files :
          /\ Len(n) = 3 /\ n[1] = "refs" /\ n[2] \in {"heads", "tags"}
          /\ read_ref_file(files, n, Fuel(files)).kind = "diverge"

\* the recursion on a cycle exhausts the stack before the file descriptors:
\* the process is killed, the files stay as they are; if the descriptors run
\* out first, the innermost open fails and the read ends as an unresolvable
\* reference
StackOverflow(name) ==
    /\ ref_cache' = NoRefCache
    /\ lastref' = Called("crash", name, <<>>, FALSE)
    /\ UNCHANGED <<reffiles, reflog>>

Crashed == lastref.op = "crash"

\* a call of Refs::read_ref by a command
read_ref_call(name) ==
    /\ lastref' = Called("read_ref", name,
                         read_ref(ref_cache, reffiles, name).val,
                         read_ref(ref_cache, reffiles, name).kind = "some")
    /\ UNCHANGED <<reffiles, ref_cache, reflog>>

SymNames == {MasterRef, DevRef}

SymCreateRef ==
    \E name \in SymNames, target \in OidInputs :
        ~Crashed /\ create_ref(name, target) /\ RefsFrame

CreateSymbolicRef ==
    \E name \in SymNames, target \in SymNames :
        ~Crashed /\ create_symbolic_ref(name, target) /\ RefsFrame

SymUpdateRef ==
    \E name \in SymNames, target \in OidInputs :
        /\ ~Crashed
        /\ \/ ReadDiverges(ref_cache, reffiles, name) /\ StackOverflow(name)
           \/ update_ref(name, target)
        /\ RefsFrame

SymReadRef ==
    \E name \in RefNameInputs :
        /\ ~Crashed
        /\ \/ ReadDiverges(ref_cache, reffiles, name) /\ StackOverflow(name)
           \/ read_ref_call(name)
        /\ RefsFrame

SymResolveRef ==
    \E name \in RefNameInputs :
        /\ ~Crashed
        /\ \/ ReadDiverges(ref_cache, reffiles, name) /\ StackOverflow(name)
           \/ resolve_ref_call(name)
        /\ RefsFrame

SymOpenRefs ==
    /\ \/ LoadDiverges(reffiles) /\ StackOverflow(<<>>)
       \/ RefsOpen
    /\ RefsFrame

SymInitRepo == ~Crashed /\ HeadName \notin DOMAIN reffiles /\ InitRepo

SymNext ==
    \/ SymInitRepo
    \/ SymCreateRef
    \/ CreateSymbolicRef
    \/ SymUpdateRef
    \/ SymReadRef
    \/ SymResolveRef
    \/ SymOpenRefs

SpecSym == RefsInit /\ [][SymNext]_vars

\* C18: reading a symbolic reference s that points at t gives the object id
\* t resolves to at that moment, through read_ref and through resolve_ref,
\* never the name of t and never an earlier id of t.
C18_SymbolicResolves ==
    \A s \in RefNameInputs :
        LET want == read_ref_file(reffiles, get_ref_path(s).path, Fuel(reffiles))
        IN (/\ ~Crashed
            /\ get_ref_path(s).path \in DOMAIN reffiles
            /\ IsSymLine(reffiles[get_ref_path(s).path])
            /\ want.kind = "some") =>
               /\ read_ref(ref_cache, reffiles, s) = want
               /\ resolve_ref(ref_cache, reffiles, s).ok
               /\ resolve_ref(ref_cache, reffiles, s).val = want.val

\* C19: for every configuration of reference files, a cycle of symbolic
\* references included, reading or resolving a reference returns an object
\* id or an error after finitely many steps: no read ends the process.
C19_ResolutionTerminates == ~Crashed

\* the line the reflog should receive for the last reference write: the old
\* id, then the new id, zeros for an unborn or a deleted reference
ExpectedLogLine ==
    LET was == read_ref_file(reffiles, get_ref_path(lastref'.name).path,
                             Fuel(reffiles))
    IN <<IF lastref'.op = "create_ref" \/ was.kind # "some" THEN Zeros ELSE was.val,
         IF lastref'.op = "delete_ref" THEN Zeros ELSE lastref'.target>>

\* C20: every successful creation, update and deletion of a reference appends
\* exactly one line to the reflog of that reference, old id first and new id
\* second, with zeros for the old id of a creation and the new id of a
\* deletion; no reflog line is ever changed or removed.
C20_ReflogAppend ==
    [][/\ \A n \in DOMAIN reflog :
              /\ n \in DOMAIN reflog'
              /\ Len(reflog'[n]) >= Len(reflog[n])
              /\ SubSeq(reflog'[n], 1, Len(reflog[n])) = reflog[n]
       /\ (/\ lastref' # lastref
           /\ lastref'.ok
           /\ lastref'.op \in {"create_ref", "update_ref", "delete_ref"}) =>
              /\ lastref'.name \in DOMAIN reflog'
              /\ reflog'[lastref'.name] =
                     Append(LogOf(lastref'.name), ExpectedLogLine)]_vars

\* ------------------------------------------------ reference name validation
\* names git refuses: a component that starts with '.', a name that contains
\* "..", a name that ends with ".lock"
HiddenRef == <<"refs", "heads", ".hidden">>

DotDotRef == <<"refs", "heads", "a..b">>

LockRef == <<"refs", "heads", "x.lock">>

InvalidRefNames == {HiddenRef, DotDotRef, LockRef}

NameInputs == {MasterRef} \cup InvalidRefNames

NamesCreateRef ==
    \E name \in NameInputs, target \in OidInputs :
        create_ref(name, target) /\ RefsFrame

NamesUpdateRef ==
    \E name \in NameInputs, target \in OidInputs :
        update_ref(name, target) /\ RefsFrame

NamesDeleteRef == \E name \in NameInputs : delete_ref(name) /\ RefsFrame

NamesNext ==
    \/ NamesCreateRef
    \/ NamesUpdateRef
    \/ NamesDeleteRef
    \/ OpenRefs

SpecNames == RefsInit /\ [][NamesNext]_vars

\* C21: a create_ref, update_ref or delete_ref given a name that has a
\* component starting with '.', contains "..", or ends with ".lock" fails
\* and creates, modifies or removes no reference file.
C21_InvalidRefName ==
    [][(lastref'.op \in {"create_ref", "update_ref", "delete_ref"}
        /\ lastref'.name \in InvalidRefNames)
       => (~lastref'.ok /\ reffiles' = reffiles)]_vars

\* ------------------------------------------------------ reference deletion
\* C22: right after a successful delete_ref(name), ref_exists(name) is false
\* and read_ref(name) returns no value; a delete_ref of a reference that
\* does not exist fails and changes no reference file, cache entry or reflog.
C22_DeleteRef ==
    [][(lastref'.op = "delete_ref") =>
          /\ lastref'.ok =>
                /\ ~ref_exists(reffiles', lastref'.name)
                /\ read_ref(ref_cache', reffiles', lastref'.name) = None
          /\ ~ref_exists(reffiles, lastref'.name) =>
                /\ ~lastref'.ok
                /\ UNCHANGED <<reffiles, ref_cache, reflog>>]_vars

\* a reference that was created and cached has just been deleted
C22_Witness ==
    /\ lastref.op = "delete_ref"
    /\ lastref.ok
    /\ lastref.name = DevRef
    /\ ~ref_exists(reffiles, DevRef)
    /\ HeadName \in DOMAIN reffiles

\* ------------------------------------------- interrupted reference write
\* create_ref up to the std::ofstream constructor of write_ref_file: the
\* file is created or truncated, empty, under the reference's own path
BeginWriteRef(name, target) ==
    LET p == get_ref_path(name)
    IN /\ lastref.op # "write_ref_file"
       /\ p.ok
       /\ CanWrite(p.path)
       /\ reffiles' = (p.path :> <<>>) @@ reffiles
       /\ lastref' = Called("write_ref_file", name, target, FALSE)
       /\ UNCHANGED <<ref_cache, reflog>>

\* file << target << "\n" and the close of the stream as write_ref_file
\* returns, then the rest of create_ref
EndWriteRef ==
    /\ lastref.op = "write_ref_file"
    /\ reffiles' = (get_ref_path(lastref.name).path :> lastref.target) @@ reffiles
    /\ ref_cache' = (lastref.name :> lastref.target) @@ ref_cache
    /\ reflog' = log_ref_change(lastref.name, <<>>, lastref.target)
    /\ lastref' = Called("create_ref", lastref.name, lastref.target, TRUE)

\* the process is terminated; the files stay as they are and the next
\* process opens the reference store
InterruptRefs ==
    /\ ref_cache' = load_ref_cache(reffiles)
    /\ lastref' = Called("open", <<>>, <<>>, TRUE)
    /\ UNCHANGED <<reffiles, reflog>>

TagRef == <<"refs", "tags", "v1">>

RefCrashNames == {MasterRef, DevRef, TagRef}

RefCrashBegin ==
    \E name \in RefCrashNames, target \in OidInputs :
        BeginWriteRef(name, target) /\ RefsFrame

RefCrashEnd == EndWriteRef /\ RefsFrame

RefCrashInterrupt == InterruptRefs /\ RefsFrame

RefCrashNext == RefCrashBegin \/ RefCrashEnd \/ RefCrashInterrupt

SpecRefCrash == RefsInit /\ [][RefCrashNext]_vars

\* what a reader in another process gets for a name
ReaderSees(files, name) == read_ref(load_ref_cache(files), files, name)

\* C23: over every step of a reference write, interrupted or not, a reader
\* in another process sees for every reference either the value it saw
\* before the step or the complete value being written, never an empty or
\* partial one.
C23_AtomicRefWrite ==
    [][\A name \in RefCrashNames :
          \/ ReaderSees(reffiles', name) = ReaderSees(reffiles, name)
          \/ /\ lastref'.op \in {"write_ref_file", "create_ref"}
             /\ lastref'.name = name
             /\ ReaderSees(reffiles', name) = Some(lastref'.target)]_vars

\* ------------------------------------------------------ index specification
\* Index::remove_entry
remove_entry(path) ==
    IF path \in DOMAIN path_index
    THEN /\ entries' = RemoveAt(entries, path_index[path])
         /\ path_index' = update_path_index(RemoveAt(entries, path_index[path]))
    ELSE UNCHANGED <<entries, path_index>>

\* Index::remove_file
remove_file(filepath) == remove_entry(filepath)

\* Index::is_file_modified
is_file_modified(entry, filepath) ==
    IF filepath \notin DOMAIN worktree THEN TRUE
    ELSE \/ worktree[filepath].mtime # entry.mtime
         \/ Len(worktree[filepath].data) # entry.size

\* Index::get_modified_files
get_modified_files ==
    {entries[i].path : i \in {j \in 1..Len(entries) :
                                 is_file_modified(entries[j], entries[j].path)}}

IndexPaths == {<<"a">>, <<"b">>}

IndexContents == {<<"a">>, <<"b">>}

IndexWriteFile ==
    \E path \in IndexPaths, data \in IndexContents, t \in TimeInputs :
        /\ worktree' = (path :> [data |-> data, mtime |-> t]) @@ worktree
        /\ UNCHANGED <<objvars, codecvars, refvars, entries, path_index, indexfile>>

IndexAddFile ==
    \E path \in IndexPaths :
        /\ add_file(path)
        /\ UNCHANGED <<objvars, codecvars, refvars, worktree, indexfile>>

IndexRemoveFile ==
    \E path \in IndexPaths :
        /\ remove_file(path)
        /\ UNCHANGED <<objvars, codecvars, refvars, worktree, indexfile>>

\* Index::Index on the same gitdir: a fresh Index loads the index file
IndexLoad ==
    /\ entries' = index_load(indexfile)
    /\ path_index' = update_path_index(index_load(indexfile))
    /\ UNCHANGED <<objvars, codecvars, refvars, worktree, indexfile>>

IndexNext ==
    \/ IndexWriteFile
    \/ IndexAddFile
    \/ IndexRemoveFile
    \/ SaveIndex
    \/ IndexLoad

SpecIndex == RefsInit /\ [][IndexNext]_vars

RECURSIVE PathString(_)
\* the path as the string the index holds: its components joined by '/'
PathString(path) ==
    IF Len(path) <= 1 THEN path
    ELSE <<Head(path), "/">> \o PathString(Tail(path))

\* C24: after any sequence of add_file and remove_file the entries of the
\* index are in strictly ascending order of path (every entry has stage 0),
\* so no path has two entries.
C24_IndexSorted ==
    \A i \in 1..Len(entries) : \A j \in (i + 1)..Len(entries) :
        StrLess(PathString(entries[i].path), PathString(entries[j].path))

\* no path has two entries
IndexPathsUnique ==
    \A i \in 1..Len(entries) : \A j \in 1..Len(entries) :
        entries[i].path = entries[j].path => i = j

\* C25: when the index file is what save wrote for the entries in memory, a
\* fresh Index loading it holds the same entries in the same order, each
\* with the same path, blob id, mode, mtime and size.
C25_SaveLoadRoundTrip ==
    (indexfile.present /\ indexfile = index_save(entries)) =>
        index_load(indexfile) = entries

\* C26: an entry is reported unmodified exactly when its file exists and
\* either the stat data (mtime, size) equal the entry's or the hash of the
\* file's content equals the entry's blob id.
C26_IsModified ==
    \A i \in 1..Len(entries) :
        LET e == entries[i]
            same_stat == /\ worktree[e.path].mtime = e.mtime
                         /\ Len(worktree[e.path].data) = e.size
        IN ~is_file_modified(e, e.path) <=>
               /\ e.path \in DOMAIN worktree
               /\ same_stat \/ hash_file(e.path) = e.blob_id

\* ------------------------------------------------------------------ merge
\* ObjectDatabase::load of each id of a set, on a cache: the cache
\* afterwards.  A load that reads the file caches what it returns, so the
\* result of a later load of the same id does not depend on the earlier one.
LoadInto(c, ids) ==
    [id \in DOMAIN c \cup {i \in ids : LoadFrom(c, i).ok} |->
        IF id \in DOMAIN c THEN c[id] ELSE LoadFrom(c, id).obj]

\* merge::find_merge_base
find_merge_base(commit1, commit2) == commit1

\* the type check and tree_id() of get_tree_from_commit, on what load did
TreeIdOfLoaded(r) ==
    IF r.ok /\ r.obj.type = "commit" THEN Some(r.obj.tree_id) ELSE Throws

\* ThreeWayMerge::get_tree_from_commit on a cache: the tree id, or the
\* exception of load or of the type check
get_tree_from_commit(c, commit_id) == TreeIdOfLoaded(LoadFrom(c, commit_id))

\* the loop of get_tree_files over the entries of what load returned: the
\* names of the entries that are no directories; nothing for an object that
\* is no tree
FilesOfLoaded(r) ==
    IF ~r.ok THEN Throws
    ELSE IF r.obj.type # "tree" THEN Some({})
    ELSE Some({r.obj.entries[i].name :
                 i \in {j \in 1..Len(r.obj.entries) :
                          r.obj.entries[j].mode # "Directory"}})

\* ThreeWayMerge::get_tree_files on a cache
get_tree_files(c, tree_id) == FilesOfLoaded(LoadFrom(c, tree_id))

\* the loop of perform_three_way_merge over all_files: the paths passed to
\* mark_conflict
DetectConflicts(base_files, our_files, their_files) ==
    LET in_base(file) == file \in base_files
        in_ours(file) == file \in our_files
        in_theirs(file) == file \in their_files
    IN {file \in base_files \cup our_files \cup their_files :
           \/ in_ours(file) /\ in_theirs(file)
           \/ ~in_base(file) /\ in_ours(file) /\ in_theirs(file)}

\* perform_three_way_merge on the three results of get_tree_files: whether
\* it returned, its conflicts, and the tree ids it passed to load
ThreeWayOf(trees, base_files, our_files, their_files) ==
    IF base_files.kind # "some"
    THEN [ok |-> FALSE, conflicts |-> {}, loaded |-> {trees[1]}]
    ELSE IF our_files.kind # "some"
    THEN [ok |-> FALSE, conflicts |-> {}, loaded |-> {trees[1], trees[2]}]
    ELSE IF their_files.kind # "some"
    THEN [ok |-> FALSE, conflicts |-> {}, loaded |-> {trees[1], trees[2], trees[3]}]
    ELSE [ok |-> TRUE,
          conflicts |-> DetectConflicts(base_files.val, our_files.val, their_files.val),
          loaded |-> {trees[1], trees[2], trees[3]}]

\* ThreeWayMerge::perform_three_way_merge on a cache
perform_three_way_merge(c, base_tree, our_tree, their_tree) ==
    ThreeWayOf(<<base_tree, our_tree, their_tree>>,
               get_tree_files(c, base_tree), get_tree_files(c, our_tree),
               get_tree_files(c, their_tree))

MergeResult(status, conflicts, c) ==
    [status |-> status, conflicts |-> conflicts, cache |-> c]

\* ThreeWayMerge::merge after perform_three_way_merge: the result, with the
\* cache that holds what was loaded
MergeOfConflicts(c, commits, m) ==
    MergeResult(IF ~m.ok THEN "Failed"
                ELSE IF m.conflicts = {} THEN "Success" ELSE "Conflicts",
                m.conflicts, LoadInto(c, commits \cup m.loaded))

\* ThreeWayMerge::merge on the three results of get_tree_from_commit
MergeOfTrees(c, commits, base_tree, our_tree, their_tree) ==
    IF base_tree.kind # "some"
    THEN MergeResult("Failed", {}, LoadInto(c, {commits[1]}))
    ELSE IF our_tree.kind # "some"
    THEN MergeResult("Failed", {}, LoadInto(c, {commits[1], commits[2]}))
    ELSE IF their_tree.kind # "some"
    THEN MergeResult("Failed", {}, LoadInto(c, {commits[1], commits[2], commits[3]}))
    ELSE MergeOfConflicts(c, {commits[1], commits[2], commits[3]},
                          perform_three_way_merge(c, base_tree.val, our_tree.val,
                                                  their_tree.val))

\* ThreeWayMerge::merge on a cache
merge(c, base_commit, our_commit, their_commit) ==
    MergeOfTrees(c, <<base_commit, our_commit, their_commit>>,
                 get_tree_from_commit(c, base_commit),
                 get_tree_from_commit(c, our_commit),
                 get_tree_from_commit(c, their_commit))

\* ThreeWayMerge::mark_conflict: the content written to the file of a
\* conflict; read_file_content returns the empty string
ConflictContent(their_commit) ==
    <<"<<<<<<< HEAD", LF, "=======", LF, ">>>>>>> ">>
    \o SubSeq(their_commit, 1, IF Len(their_commit) < 7 THEN Len(their_commit) ELSE 7)
    \o <<LF>>

\* the working directory after mark_conflict of each conflict; the name of a
\* top-level file is its path
MarkConflicts(conflicts, their_commit, now) ==
    [p \in DOMAIN worktree \cup conflicts |->
        IF p \in conflicts
        THEN [data |-> ConflictContent(their_commit), mtime |-> now]
        ELSE worktree[p]]

\* the two definitions of MergeCommand::execute the sources hold
MergeImpls == {"commands.cpp", "merge.cpp"}

\* what MergeCommand::execute reports: the status, the conflicts, their
\* commit, and the caches of the repository it opened
MergeOutcome(status, conflicts, their, rc, c) ==
    [status |-> status, conflicts |-> conflicts, their |-> their,
     ref_cache |-> rc, cache |-> c]

OutcomeOfMerge(m, their, rc) ==
    MergeOutcome(m.status, m.conflicts, their, rc, m.cache)

\* MergeCommand::execute without the comparison of our commit and theirs
perform_merge_without_equal_check(impl, current_branch, our_commit, their_ref, opened) ==
    LET base_commit == IF impl = "merge.cpp"
                       THEN find_merge_base(our_commit.val, their_ref.val)
                       ELSE our_commit.val
    IN IF impl = "commands.cpp" /\ current_branch = None
       THEN MergeOutcome("Error", {}, <<>>, opened, NoCache)
       ELSE IF ~our_commit.ok
       THEN MergeOutcome("Error", {}, <<>>, opened, NoCache)
       ELSE IF their_ref.kind # "some"
       THEN MergeOutcome("Error", {}, <<>>, our_commit.cache, NoCache)
       ELSE IF base_commit = <<>>
       THEN MergeOutcome("Error", {}, their_ref.val, our_commit.cache, NoCache)
       ELSE OutcomeOfMerge(merge(NoCache, base_commit, our_commit.val, their_ref.val),
                           their_ref.val, our_commit.cache)

\* MergeCommand::execute of commands.cpp, or MergeCommand::execute of
\* merge.cpp with perform_merge, on what get_head_branch, get_head and
\* read_ref returned in the repository it opened
perform_merge(impl, current_branch, our_commit, their_ref, opened) ==
    LET base_commit == IF impl = "merge.cpp"
                       THEN find_merge_base(our_commit.val, their_ref.val)
                       ELSE our_commit.val
    IN IF impl = "commands.cpp" /\ current_branch = None
       THEN MergeOutcome("Error", {}, <<>>, opened, NoCache)
       ELSE IF ~our_commit.ok
       THEN MergeOutcome("Error", {}, <<>>, opened, NoCache)
       ELSE IF their_ref.kind # "some"
       THEN MergeOutcome("Error", {}, <<>>, our_commit.cache, NoCache)
       ELSE IF our_commit.val = their_ref.val
       THEN MergeOutcome("AlreadyUpToDate", {}, their_ref.val, our_commit.cache, NoCache)
       ELSE IF base_commit = <<>>
       THEN MergeOutcome("Error", {}, their_ref.val, our_commit.cache, NoCache)
       ELSE OutcomeOfMerge(merge(NoCache, base_commit, our_commit.val, their_ref.val),
                           their_ref.val, our_commit.cache)

\* the calls of get_head_branch and read_ref of MergeCommand::execute
MergeOnHead(impl, branch_name, our_commit, opened) ==
    perform_merge(impl, get_head_branch(reffiles), our_commit,
                  read_ref(our_commit.cache, reffiles, BranchRef(branch_name)),
                  opened)

\* MergeCommand::execute after Repository::open, with its call of get_head
merge_outcome(impl, branch_name) ==
    MergeOnHead(impl, branch_name,
                get_head(load_ref_cache(reffiles), reffiles),
                load_ref_cache(reffiles))

\* the repository MergeCommand::execute opened, and the conflict markers in
\* the working directory, after an outcome r
MergeEffects(branch_name, now, r) ==
    /\ cache' = r.cache
    /\ stored' = {}
    /\ ref_cache' = r.ref_cache
    /\ entries' = index_load(indexfile)
    /\ path_index' = update_path_index(index_load(indexfile))
    /\ worktree' = MarkConflicts(r.conflicts, r.their, now)
    /\ lastref' = Called("merge", BranchRef(branch_name), r.their,
                         r.status \in {"Success", "AlreadyUpToDate"})
    /\ UNCHANGED <<objfiles, writes, pending, reffiles, reflog, indexfile>>

\* MergeCommand::execute: Repository::open, the merge, and the conflict
\* markers written into the working directory
merge_command(impl, branch_name, now) ==
    MergeEffects(branch_name, now, merge_outcome(impl, branch_name))

Merge ==
    \E impl \in MergeImpls, b \in BranchInputs, now \in TimeInputs :
        merge_command(impl, b, now) /\ UNCHANGED codecvars

MergeNext == HeadNext \/ Merge

SpecMerge == RepoInit /\ [][MergeNext]_vars

\* the tree ids of the object database
TreesOnDisk == {id \in DOMAIN objfiles : KindOnDisk(id) = "tree"}

\* the commits Repository::commit can have written over the objects on disk
CommitCandidates ==
    {Commit(t, p, SomePerson, SomePerson, <<"m">>) :
        t \in TreesOnDisk, p \in {<<>>} \cup {<<q>> : q \in CommitsOnDisk}}

\* the parent ids of a commit on disk
ParentsOnDisk(id) ==
    IF \E c \in CommitCandidates : c.id = id
    THEN (CHOOSE c \in CommitCandidates : c.id = id).parent_ids
    ELSE <<>>

RECURSIVE Ancestors(_)
\* a commit and every commit reachable from it over parent links
Ancestors(id) ==
    {id} \cup UNION {Ancestors(ParentsOnDisk(id)[i]) :
                        i \in 1..Len(ParentsOnDisk(id))}

CommonAncestors(c1, c2) == Ancestors(c1) \cap Ancestors(c2)

\* the common ancestors that have no descendant among the common ancestors
BestCommonAncestors(c1, c2) ==
    {a \in CommonAncestors(c1, c2) :
        \A d \in CommonAncestors(c1, c2) \ {a} : a \notin Ancestors(d)}

\* what HEAD and a branch resolve to in the repository a command opens
OursOf == get_head(load_ref_cache(reffiles), reffiles)

TheirsOf(branch_name) ==
    read_ref(OursOf.cache, reffiles, BranchRef(branch_name))

\* HEAD and the branch both resolve to commits of the object database
MergeInputsResolve(branch_name) ==
    /\ OursOf.ok
    /\ OursOf.val \in CommitsOnDisk
    /\ TheirsOf(branch_name).kind = "some"
    /\ TheirsOf(branch_name).val \in CommitsOnDisk

\* the outcome a merge of equal commits must have: AlreadyUpToDate, and no
\* object, reference, reflog, index file or working-tree file is changed
UpToDateOutcome(impl, branch_name) ==
    /\ merge_outcome(impl, branch_name).status = "AlreadyUpToDate"
    /\ UNCHANGED <<objfiles, reffiles, reflog, indexfile, worktree>>

C28_FastForward ==
    [][\A impl \in MergeImpls, b \in BranchInputs, now \in TimeInputs :
          (/\ merge_command(impl, b, now)
           /\ get_head_branch(reffiles) # None
           /\ MergeInputsResolve(b)
           /\ OursOf.val # TheirsOf(b).val
           /\ OursOf.val \in Ancestors(TheirsOf(b).val))
          => /\ merge_outcome(impl, b).status = "FastForward"
             /\ reffiles'[<<"refs", "heads">> \o get_head_branch(reffiles).val]
                    = TheirsOf(b).val
             /\ objfiles' = objfiles]_vars

\* C29: whenever a merge computes the merge base of two different commits,
\* find_merge_base returns a common ancestor-or-self of both that has no
\* descendant among their common ancestors, and the merge fails for want of
\* a merge base if they have no common ancestor.
C29_MergeBase ==
    [][\A b \in BranchInputs, now \in TimeInputs :
          (/\ merge_command("merge.cpp", b, now)
           /\ MergeInputsResolve(b)
           /\ OursOf.val # TheirsOf(b).val)
          => IF CommonAncestors(OursOf.val, TheirsOf(b).val) = {}
             THEN merge_outcome("merge.cpp", b).status = "Error"
             ELSE find_merge_base(OursOf.val, TheirsOf(b).val)
                      \in BestCommonAncestors(OursOf.val, TheirsOf(b).val)]_vars

\* ------------------------------------------- three-way merge specification
\* the most objects the merged repository holds
MaxMergeObjects == 6

\* the blobs a file can have in a tree, the trees with that file and the
\* tree without it, and a commit of each tree
MergeBlobs == {Blob(<<"a">>), Blob(<<"b">>), Blob(<<"c">>)}

MergeTrees ==
    {EmptyTree} \cup {add_entry(EmptyTree, "Regular", x.id, <<"a">>) : x \in MergeBlobs}

CommitOfTree(tree) == Commit(tree.id, <<>>, SomePerson, SomePerson, <<"m">>)

MergeCommits == {CommitOfTree(tree) : tree \in MergeTrees}

MergeStore ==
    \E o \in MergeTrees \cup MergeCommits :
        /\ exists(o.id) \/ Cardinality(DOMAIN objfiles) < MaxMergeObjects
        /\ store(o)
        /\ ObjFrame

\* ThreeWayMerge::merge on the repository that stored the objects, with the
\* conflict markers written into the working directory
three_way_merge(base_commit, our_commit, their_commit, now) ==
    LET m == merge(cache, base_commit, our_commit, their_commit)
    IN /\ cache' = m.cache
       /\ worktree' = MarkConflicts(m.conflicts, their_commit, now)
       /\ UNCHANGED <<objfiles, writes, stored, pending>>

ThreeWayMerge ==
    \E b \in MergeCommits, o \in MergeCommits, t \in MergeCommits,
       now \in TimeInputs :
        /\ three_way_merge(b.id, o.id, t.id, now)
        /\ UNCHANGED <<codecvars, refvars, entries, path_index, indexfile>>

MergeTreesNext == MergeStore \/ ThreeWayMerge

SpecMergeTrees == Init /\ [][MergeTreesNext]_vars

\* the blob a tree has at a name, or the empty id if it has none
BlobAt(tree, name) ==
    IF \E i \in 1..Len(tree.entries) : tree.entries[i].name = name
    THEN tree.entries[CHOOSE i \in 1..Len(tree.entries) :
                          tree.entries[i].name = name].id
    ELSE <<>>

NamesOf(tree) == {tree.entries[i].name : i \in 1..Len(tree.entries)}

\* the conflicts of the classification table: the paths at which ours and
\* theirs differ from each other and both differ from the base, absence
\* counting as a value
TableConflicts(base_tree, our_tree, their_tree) ==
    {n \in NamesOf(base_tree) \cup NamesOf(our_tree) \cup NamesOf(their_tree) :
        /\ BlobAt(our_tree, n) # BlobAt(their_tree, n)
        /\ BlobAt(our_tree, n) # BlobAt(base_tree, n)
        /\ BlobAt(their_tree, n) # BlobAt(base_tree, n)}

\* C30: a three-way merge that gets to compare its three trees reports as
\* conflicts exactly the paths the classification table marks: both sides
\* changed to different blobs, add/add with different blobs, delete/modify
\* and modify/delete, and no other path.
C30_Classification ==
    [][\A b \in MergeCommits, o \in MergeCommits, t \in MergeCommits,
          now \in TimeInputs :
          (/\ three_way_merge(b.id, o.id, t.id, now)
           /\ merge(cache, b.id, o.id, t.id).status # "Failed")
          => merge(cache, b.id, o.id, t.id).conflicts
                 = TableConflicts(cache[b.tree_id], cache[o.tree_id],
                                  cache[t.tree_id])]_vars

\* ------------------------------------------ working tree after a merge
\* the content of the blob of an id
ContentOf(id) ==
    IF \E x \in MergeBlobs : x.id = id
    THEN (CHOOSE x \in MergeBlobs : x.id = id).data
    ELSE <<>>

\* the blob the classification table selects at a path that is no conflict:
\* theirs where ours is unchanged, ours otherwise; the empty id for absence
SelectedBlob(base_tree, our_tree, their_tree, n) ==
    IF BlobAt(our_tree, n) = BlobAt(base_tree, n)
    THEN BlobAt(their_tree, n)
    ELSE BlobAt(our_tree, n)

\* the content of a conflicted file: ours and theirs between the markers
MarkedContent(ours, theirs) ==
    <<"<<<<<<< ours", LF>> \o ours \o <<"=======", LF>> \o theirs
    \o <<">>>>>>> theirs", LF>>

\* the working tree holds what the merge of three trees came to: the marked
\* content at each reported conflict, the selected blob at every other path
TreeMatchesOutcome(wt, conflicts, base_tree, our_tree, their_tree) ==
    \A n \in NamesOf(base_tree) \cup NamesOf(our_tree) \cup NamesOf(their_tree) :
        IF n \in conflicts
        THEN /\ n \in DOMAIN wt
             /\ wt[n].data = MarkedContent(ContentOf(BlobAt(our_tree, n)),
                                           ContentOf(BlobAt(their_tree, n)))
        ELSE IF SelectedBlob(base_tree, our_tree, their_tree, n) = <<>>
        THEN n \notin DOMAIN wt
        ELSE /\ n \in DOMAIN wt
             /\ wt[n].data
                    = ContentOf(SelectedBlob(base_tree, our_tree, their_tree, n))

\* C31: after a three-way merge that returns Success or Conflicts, every
\* path it resolved without conflict holds in the working tree the content
\* of the blob the table selects, and every conflicted path holds ours'
\* content between '<<<<<<< ours' and '=======' and theirs' content between
\* '=======' and '>>>>>>> theirs'.
C31_WorkingTreeMatches ==
    [][\A b \in MergeCommits, o \in MergeCommits, t \in MergeCommits,
          now \in TimeInputs :
          (/\ three_way_merge(b.id, o.id, t.id, now)
           /\ merge(cache, b.id, o.id, t.id).status \in {"Success", "Conflicts"})
          => TreeMatchesOutcome(worktree', merge(cache, b.id, o.id, t.id).conflicts,
                                cache[b.tree_id], cache[o.tree_id],
                                cache[t.tree_id])]_vars

\* -------------------------------------- commit after a merge, specification
\* what a merge leaves for the calls that follow it: its status and the
\* paths it reported as conflicts
Merged(their_commit, m) ==
    [op |-> "merge", name |-> <<>>, target |-> their_commit,
     ok |-> m.status = "Success", status |-> m.status,
     conflicts |-> m.conflicts]

ConflictPaths == {<<"a">>}

ConflictWriteFile ==
    \E path \in ConflictPaths, data \in ContentInputs, t \in TimeInputs :
        /\ worktree' = (path :> [data |-> data, mtime |-> t]) @@ worktree
        /\ UNCHANGED <<objvars, codecvars, refvars, entries, path_index, indexfile>>

\* Index::add_file of a path: the path is staged again
ConflictAddFile ==
    \E path \in ConflictPaths :
        /\ add_file(path)
        /\ lastref' = Called("add_file", path, <<>>, path \in DOMAIN worktree)
        /\ UNCHANGED <<objvars, codecvars, reffiles, ref_cache, reflog,
                       worktree, indexfile>>

\* ThreeWayMerge::merge of three commits of the repository, in the process
\* that wrote them
ConflictMerge ==
    \E b \in CommitsOnDisk, o \in CommitsOnDisk, t \in CommitsOnDisk,
       now \in TimeInputs :
        /\ three_way_merge(b, o, t, now)
        /\ lastref' = Merged(t, merge(cache, b, o, t))
        /\ UNCHANGED <<codecvars, reffiles, ref_cache, reflog, entries,
                       path_index, indexfile>>

ConflictNext == ConflictWriteFile \/ ConflictAddFile \/ DoCommit \/ ConflictMerge

SpecConflict == RepoInit /\ [][ConflictNext]_vars

\* the last call was a merge that ended with conflicts, and no path has
\* been staged since
MergeLeftConflicts == lastref.op = "merge" /\ lastref.status = "Conflicts"

\* the positions of the index entries of a path
EntriesOf(es, path) == {i \in 1..Len(es) : es[i].path = path}

\* C32, the index: a merge that ends with status Conflicts leaves in the
\* index the entries of ours and theirs (stages 2 and 3, and stage 1 for a
\* base) for each conflicted path.
C32_ConflictStages ==
    [][\A b \in CommitsOnDisk, o \in CommitsOnDisk, t \in CommitsOnDisk,
          now \in TimeInputs :
          (/\ three_way_merge(b, o, t, now)
           /\ merge(cache, b, o, t).status = "Conflicts")
          => \A p \in merge(cache, b, o, t).conflicts :
                 Cardinality(EntriesOf(entries', p)) >= 2]_vars

\* C32: every commit attempted after a merge ended with status Conflicts,
\* before a conflicted path is staged again, fails without creating an
\* object or moving a reference; and the merge left the stage entries.
C32_CommitRefused ==
    [][/\ (DoCommit /\ MergeLeftConflicts)
           => /\ UNCHANGED <<objfiles, reffiles>>
              /\ lastref'.op # "update_ref"
       /\ \A b \in CommitsOnDisk, o \in CommitsOnDisk, t \in CommitsOnDisk,
             now \in TimeInputs :
             (/\ three_way_merge(b, o, t, now)
              /\ merge(cache, b, o, t).status = "Conflicts")
             => \A p \in merge(cache, b, o, t).conflicts :
                    Cardinality(EntriesOf(entries', p)) >= 2]_vars

\* the commit part of C32 alone
C32_CommitAfterConflicts ==
    [][(DoCommit /\ MergeLeftConflicts)
         => /\ UNCHANGED <<objfiles, reffiles>>
            /\ lastref'.op # "update_ref"]_vars

\* ----------------------------------------------------- SHA-1, the arithmetic
\* A uint32_t is the pair of its upper and lower 16 bits; a byte is a number
\* below 256.
Half == 65536

Word(hi, lo) == <<hi, lo>>

\* bit k of x
Bit(x, k) == (x \div 2^k) % 2

\* x & y on numbers below 16
And4(x, y) ==
    Bit(x, 0) * Bit(y, 0) + 2 * Bit(x, 1) * Bit(y, 1)
    + 4 * Bit(x, 2) * Bit(y, 2) + 8 * Bit(x, 3) * Bit(y, 3)

\* x & y on numbers below 2^16
BitAnd(x, y) ==
    And4(x % 16, y % 16)
    + 16 * And4((x \div 16) % 16, (y \div 16) % 16)
    + 256 * And4((x \div 256) % 16, (y \div 256) % 16)
    + 4096 * And4(x \div 4096, y \div 4096)

\* the operators &, |, ^, ~ and + of uint32_t
WAnd(a, b) == Word(BitAnd(a[1], b[1]), BitAnd(a[2], b[2]))

WOr(a, b) ==
    Word(a[1] + b[1] - BitAnd(a[1], b[1]), a[2] + b[2] - BitAnd(a[2], b[2]))

WXor(a, b) ==
    Word(a[1] + b[1] - 2 * BitAnd(a[1], b[1]),
         a[2] + b[2] - 2 * BitAnd(a[2], b[2]))

WNot(a) == Word(Half - 1 - a[1], Half - 1 - a[2])

WAdd(a, b) ==
    Word((a[1] + b[1] + ((a[2] + b[2]) \div Half)) % Half, (a[2] + b[2]) % Half)

\* left_rotate: (value << count) | (value >> (32 - count)), 0 < count < 32
Rotated(hi, lo, n) ==
    Word(((hi * 2^n) % Half) + (lo \div 2^(16 - n)),
         ((lo * 2^n) % Half) + (hi \div 2^(16 - n)))

left_rotate(value, count) ==
    IF count < 16 THEN Rotated(value[1], value[2], count)
    ELSE Rotated(value[2], value[1], count - 16)

\* the constants K[0..3]: 5A827999, 6ED9EBA1, 8F1BBCDC, CA62C1D6
K == <<Word(23170, 31129), Word(28377, 60321), Word(36635, 48348),
       Word(51810, 49622)>>

\* h0_..h4_ of SHA1::SHA1(): 67452301, EFCDAB89, 98BADCFE, 10325476, C3D2E1F0
InitialWords ==
    <<Word(26437, 8961), Word(61389, 43913), Word(39098, 56574),
      Word(4146, 21622), Word(50130, 57840)>>

\* w[i] for i < 16: four bytes of the buffer, the first the most significant
BlockWord(buffer, i) ==
    Word(buffer[4 * i + 1] * 256 + buffer[4 * i + 2],
         buffer[4 * i + 3] * 256 + buffer[4 * i + 4])

\* w[i] for 16 <= i < 80, from w[0..i-1] held as the sequence w[1..i]
NextWord(w) ==
    left_rotate(WXor(WXor(w[Len(w) - 2], w[Len(w) - 7]),
                     WXor(w[Len(w) - 13], w[Len(w) - 15])), 1)

RECURSIVE Schedule(_, _)
\* the message schedule extended to n words; the loop is split in halves,
\* which keeps its evaluation shallow
Schedule(w, n) ==
    IF Len(w) + 1 < n THEN Schedule(Schedule(w, (Len(w) + n) \div 2), n)
    ELSE IF Len(w) < n THEN Append(w, NextWord(w))
    ELSE w

\* f and k of round i
RoundF(i, b, c, d) ==
    IF i < 20 THEN WOr(WAnd(b, c), WAnd(WNot(b), d))
    ELSE IF i < 40 THEN WXor(WXor(b, c), d)
    ELSE IF i < 60 THEN WOr(WOr(WAnd(b, c), WAnd(b, d)), WAnd(c, d))
    ELSE WXor(WXor(b, c), d)

RoundK(i) == K[(i \div 20) + 1]

\* the sum of five uint32_t
WAdd5(a, b, c, d, e) ==
    Word((a[1] + b[1] + c[1] + d[1] + e[1]
          + ((a[2] + b[2] + c[2] + d[2] + e[2]) \div Half)) % Half,
         (a[2] + b[2] + c[2] + d[2] + e[2]) % Half)

\* one main round on <<a, b, c, d, e>>
Round(v, i, w) ==
    <<WAdd5(left_rotate(v[1], 5), RoundF(i, v[2], v[3], v[4]), v[5],
            RoundK(i), w[i + 1]),
      v[1], left_rotate(v[2], 30), v[3], v[4]>>

RECURSIVE Rounds(_, _, _)
\* the main rounds 0 to n - 1: vs holds <<a, b, c, d, e>> before round 0
\* and after each round made so far; the loop is split in halves
Rounds(vs, n, w) ==
    IF Len(vs) < n THEN Rounds(Rounds(vs, (Len(vs) + n) \div 2, w), n, w)
    ELSE IF Len(vs) = n THEN Append(vs, Round(vs[n], n - 1, w))
    ELSE vs

\* the main rounds, one for each word of the schedule
AllRounds(h, w) == Rounds(<<h>>, Len(w), w)[Len(w) + 1]

AddWords(h, v) ==
    <<WAdd(h[1], v[1]), WAdd(h[2], v[2]), WAdd(h[3], v[3]), WAdd(h[4], v[4]),
      WAdd(h[5], v[5])>>

\* SHA1::process_block: the state words after the block in the buffer
process_block(h, buffer) ==
    AddWords(h, AllRounds(h, Schedule([i \in 1..16 |-> BlockWord(buffer, i - 1)], 80)))

\* ------------------------------------------------------- SHA-1, the hasher
\* the byte orders of uint32_t a build of the program can have
HostOrders == {"little", "big"}

\* SHA1::SHA1() in a build of a byte order; buffer holds buffer_[0] to
\* buffer_[buffer_length_ - 1]
SHA1(order) ==
    [order |-> order, h |-> InitialWords, buffer |-> <<>>,
     message_length |-> 0, finalized |-> FALSE]

RECURSIVE Blocks(_, _, _)
\* the calls of process_block the loop of SHA1::update makes over `all`,
\* the bytes of the buffer followed by the bytes of data: hs holds the state
\* words before the first block of 64 bytes and after each block processed
\* so far, up to block n; the loop is split in halves
Blocks(hs, all, n) ==
    IF Len(hs) < n THEN Blocks(Blocks(hs, all, (Len(hs) + n) \div 2), all, n)
    ELSE IF Len(hs) = n
    THEN Append(hs, process_block(hs[n], SubSeq(all, 64 * (n - 1) + 1, 64 * n)))
    ELSE hs

\* the hasher after the loop of SHA1::update: every byte went to the
\* buffer and added 8 to message_length_, and each time the buffer held 64
\* bytes it was processed and emptied
UpdateOn(s, all, added) ==
    [s EXCEPT !.h = Blocks(<<s.h>>, all, Len(all) \div 64)[(Len(all) \div 64) + 1],
              !.buffer = SubSeq(all, 64 * (Len(all) \div 64) + 1, Len(all)),
              !.message_length = @ + 8 * added]

\* SHA1::update that starts each call on an empty buffer
UpdateBytes_on_empty_buffer(s, data) == UpdateOn(s, data, Len(data))

\* the loop of SHA1::update on a hasher that is not finalized
UpdateBytes(s, data) == UpdateOn(s, s.buffer \o data, Len(data))

\* SHA1::update without the test of finalized_
update_unchecked(s, data) == [ok |-> TRUE, sha |-> UpdateBytes(s, data)]

\* SHA1::update: whether it returned, and the hasher afterwards
update(s, data) ==
    IF s.finalized THEN [ok |-> FALSE, sha |-> s]
    ELSE [ok |-> TRUE, sha |-> UpdateBytes(s, data)]

\* the buffer filled with zero bytes up to n bytes
ZerosTo(s, n) == [s EXCEPT !.buffer = @ \o [i \in 1..(n - Len(@)) |-> 0]]

\* the hasher after process_block of a full buffer
BlockDone(s) == [s EXCEPT !.h = process_block(s.h, s.buffer), !.buffer = <<>>]

\* the while loop of pad_message: zero bytes until buffer_length_ is 56,
\* through a process_block at 64 if it is beyond 56
PadZeros(s) ==
    IF Len(s.buffer) <= 56 THEN ZerosTo(s, 56)
    ELSE ZerosTo(BlockDone(ZerosTo(s, 64)), 56)

RECURSIVE ShiftRight(_, _)
\* n >> (8 * i)
ShiftRight(n, i) == IF i = 0 THEN n ELSE ShiftRight(n \div 256, i - 1)

\* the eight bytes of message_length_, the most significant first
LengthBytes(n) == [k \in 1..8 |-> ShiftRight(n, 8 - k) % 256]

\* SHA1::pad_message
pad_message(s) ==
    LET p == PadZeros([s EXCEPT !.buffer = Append(@, 128)])
    IN [p EXCEPT !.buffer = @ \o LengthBytes(s.message_length)]

\* the bytes of a uint32_t in memory
WordBytes(w, order) ==
    IF order = "big"
    THEN <<w[1] \div 256, w[1] % 256, w[2] \div 256, w[2] % 256>>
    ELSE <<w[2] % 256, w[2] \div 256, w[1] % 256, w[1] \div 256>>

\* the 20 bytes final() passes to binary_to_hex: the five words stored
\* through a uint32_t pointer, or the members h0_..h4_ read in place
HashBytes(s) ==
    WordBytes(s.h[1], s.order) \o WordBytes(s.h[2], s.order)
    \o WordBytes(s.h[3], s.order) \o WordBytes(s.h[4], s.order)
    \o WordBytes(s.h[5], s.order)

LowerHex ==
    <<"0", "1", "2", "3", "4", "5", "6", "7", "8", "9",
      "a", "b", "c", "d", "e", "f">>

RECURSIVE binary_to_hex(_)
\* two lower-case hex digits per byte; the loop is split in halves
binary_to_hex(data) ==
    IF Len(data) = 0 THEN ""
    ELSE IF Len(data) = 1
    THEN LowerHex[(data[1] \div 16) + 1] \o LowerHex[(data[1] % 16) + 1]
    ELSE binary_to_hex(SubSeq(data, 1, Len(data) \div 2))
         \o binary_to_hex(SubSeq(data, (Len(data) \div 2) + 1, Len(data)))

\* the hasher after pad_message and process_block
Finalized(p) ==
    [p EXCEPT !.h = process_block(p.h, p.buffer), !.finalized = TRUE]

DigestOf(s) == [digest |-> binary_to_hex(HashBytes(s)), sha |-> s]

\* SHA1::final: the string it returns, and the hasher afterwards
final(s) ==
    IF s.finalized THEN DigestOf(s) ELSE DigestOf(Finalized(pad_message(s)))

\* SHA1::hash
hash(data, order) == final(update(SHA1(order), data).sha).digest

\* the size of the buffer of hash_file
ReadSize == 4096

RECURSIVE ReadLoop(_, _)
\* the loop of hash_file: an update for each full read, and one for the
\* bytes of the read that met the end of the file
ReadLoop(s, content) ==
    IF Len(content) >= ReadSize
    THEN ReadLoop(update(s, SubSeq(content, 1, ReadSize)).sha,
                  SubSeq(content, ReadSize + 1, Len(content)))
    ELSE update(s, content).sha

\* SHA1::hash_file of a file that can be opened
SHA1_hash_file(content, order) == final(ReadLoop(SHA1(order), content)).digest

\* ---------------------------------------------------- SHA-1, specification
\* the most update calls made on one hasher
MaxUpdates == 3

\* "abc", "hello", " world", 62 bytes 'a', and a file one byte longer than
\* the read buffer of hash_file
Abc == <<97, 98, 99>>
Hello == <<104, 101, 108, 108, 111>>
SpaceWorld == <<32, 119, 111, 114, 108, 100>>
Fill62 == [i \in 1..62 |-> 97]
LongFile == [i \in 1..(ReadSize + 1) |-> 97]

ShaChunks == {<<>>, Abc, Hello, SpaceWorld, Fill62}

ShaFiles == {<<>>, Abc, Hello \o SpaceWorld, LongFile}

\* the record of a call: the bytes the hasher took so far, the number of
\* update calls, the call, whether it returned, the string it returned and
\* the string the first final() returned
ShaCall(fed, updates, op, ok, digest, first) ==
    [fed |-> fed, updates |-> updates, op |-> op, ok |-> ok,
     digest |-> digest, first |-> first]

ShaInit ==
    /\ hasher \in {SHA1(order) : order \in HostOrders}
    /\ shalog = ShaCall(<<>>, 0, "new", TRUE, "", "")
    /\ cin = [type |-> "blob", data |-> <<>>]
    /\ cout = [done |-> FALSE, hashed |-> <<>>, written |-> <<>>,
               decoded |-> Thrown("none"), reread |-> Thrown("none")]
    /\ LibIdle
    /\ ObjInit
    /\ RefsIdle
    /\ RepoIdle

ShaFrame == UNCHANGED <<objvars, cin, cout, libvars, refvars, repovars>>

\* a new SHA1 object in the same build
ShaNew ==
    /\ shalog.op # "new"
    /\ hasher' = SHA1(hasher.order)
    /\ shalog' = ShaCall(<<>>, 0, "new", TRUE, "", "")
    /\ ShaFrame

UpdateCalled(data, r) ==
    /\ hasher' = r.sha
    /\ shalog' = [shalog EXCEPT !.fed = IF r.ok THEN @ \o data ELSE @,
                                !.updates = @ + 1, !.op = "update",
                                !.ok = r.ok]

ShaUpdate ==
    \E data \in ShaChunks :
        /\ shalog.updates < MaxUpdates
        /\ UpdateCalled(data, update(hasher, data))
        /\ ShaFrame

FinalCalled(r) ==
    /\ hasher' = r.sha
    /\ shalog' = [shalog EXCEPT !.op = "final", !.ok = TRUE,
                                !.digest = r.digest,
                                !.first = IF hasher.finalized THEN @ ELSE r.digest]

ShaFinal == FinalCalled(final(hasher)) /\ ShaFrame

\* SHA1::hash_file of a file: the hasher is the one hash_file made
HashFileCalled(content, r) ==
    /\ hasher' = r.sha
    /\ shalog' = ShaCall(content, 0, "hash_file", TRUE, r.digest, r.digest)

ShaHashFile ==
    \E content \in ShaFiles :
        /\ shalog.op = "new"
        /\ HashFileCalled(content, final(ReadLoop(SHA1(hasher.order), content)))
        /\ ShaFrame

ShaNext == ShaNew \/ ShaUpdate \/ ShaFinal \/ ShaHashFile

SpecSha == ShaInit /\ [][ShaNext]_vars

\* C33: finalize is terminal: every update called on a hasher after final()
\* fails and leaves the hasher as it was, and every further final() returns
\* the string the first final() returned.
C33_FinalTerminal ==
    [][/\ (ShaUpdate /\ hasher.finalized)
           => /\ ~shalog'.ok
              /\ hasher' = hasher
              /\ shalog'.fed = shalog.fed
       /\ (ShaFinal /\ hasher.finalized)
           => /\ shalog'.digest = shalog.first
              /\ hasher' = hasher]_vars

\* an update was refused on a hasher that took bytes and was finalized
C33_Witness ==
    /\ shalog.op = "update"
    /\ ~shalog.ok
    /\ hasher.finalized
    /\ shalog.fed # <<>>
    /\ shalog.first # ""

\* C34: streaming equivalence: the string final() returns after the chunks
\* of a message were passed to update in order, and the string hash_file
\* returns for a file, is the string hash() returns for the whole message.
C34_Streaming ==
    shalog.op \in {"final", "hash_file"}
        => shalog.digest = hash(shalog.fed, hasher.order)

\* final() was called after three chunks, the second of which crosses the
\* end of the first block of 64 bytes
C34_Witness ==
    /\ shalog.op = "final"
    /\ shalog.updates = 3
    /\ shalog.fed = Fill62 \o Abc \o Hello

\* C35: the known answers: the digest of "", of "abc" and of "hello world"
\* is the string FIPS 180-4 defines, the five state words rendered
\* most-significant byte first.
C35_KnownAnswers ==
    shalog.op \in {"final", "hash_file"}
        => /\ shalog.fed = <<>>
                => shalog.digest = "da39a3ee5e6b4b0d3255bfef95601890afd80709"
           /\ shalog.fed = Abc
                => shalog.digest = "a9993e364706816aba3e25717850c26c9cd0d89d"
           /\ shalog.fed = Hello \o SpaceWorld
                => shalog.digest = "2aae6c35c94fcfb415dbe95f408b9ce91ee846ed"

\* ------------------------------------------------- trees, specification
MaxEntries == 3

\* the id the test passes to add_entry: fewer than 40 hex digits
ShortId == <<"a", "b", "c", "1", "2", "3">>

TreeNames == {<<"a">>, <<"a", ".", "b">>, <<"b">>}

TreeModes == {"Regular", "Directory"}

TreeIds == {Blob(<<"a">>).id, ShortId}

\* std::stoi(entry.id.substr(i * 2, 2), nullptr, 16) for i < 20 returns for
\* an id of 40 hex digits and throws std::invalid_argument for a shorter one
HasRawId(id) == IsDigest(id)

IsSortedByName(es) ==
    \A i \in 1..Len(es), j \in 1..Len(es) :
        i < j => ~StrLess(es[j].name, es[i].name)

\* std::sort(entries_.begin(), entries_.end(), a.name < b.name) of all: a
\* permutation in which no name comes before a smaller one; std::sort is not
\* stable, so entries of one name may come out in any order
SortOutcomes(all) ==
    {s \in {[i \in 1..Len(all) |-> all[p[i]]] : p \in Permutations(1..Len(all))} :
        IsSortedByName(s)}

\* the loop that rebuilds data_ and recompute_id: an id that std::stoi
\* refuses ends the call by exception before data_ is assigned
Rebuilt(t, es) ==
    IF \A i \in 1..Len(es) : HasRawId(es[i].id)
    THEN [t EXCEPT !.entries = es, !.data = TreeData(es),
                   !.id = compute_id("tree", TreeData(es))]
    ELSE [t EXCEPT !.entries = es]

\* Tree::add_entry(mode, id, name) on t: the trees it can leave
AddEntryOutcomes(t, e) ==
    {Rebuilt(t, es) : es \in SortOutcomes(Append(t.entries, e))}

RECURSIVE TreesAfter(_)
\* the trees a new Tree can be after the add_entry calls of calls, in order
TreesAfter(calls) ==
    IF calls = <<>> THEN {EmptyTree}
    ELSE UNION {AddEntryOutcomes(t, calls[Len(calls)]) :
                  t \in TreesAfter(SubSeq(calls, 1, Len(calls) - 1))}

TreeInit ==
    /\ tree_obj = EmptyTree
    /\ add_calls = <<>>
    /\ PackIdle
    /\ RemoteIdle
    /\ cin = [type |-> "blob", data |-> <<>>]
    /\ cout = [done |-> FALSE, hashed |-> <<>>, written |-> <<>>,
               decoded |-> Thrown("none"), reread |-> Thrown("none")]
    /\ ShaIdle
    /\ ObjInit
    /\ RefsIdle
    /\ RepoIdle

TreeFrame == UNCHANGED <<objvars, cin, cout, shavars, pack, remote, refvars, repovars>>

TreeAddEntry ==
    \E mode \in TreeModes, id \in TreeIds, name \in TreeNames :
        /\ Len(add_calls) < MaxEntries
        /\ tree_obj' \in AddEntryOutcomes(tree_obj, TreeEntry(mode, id, name))
        /\ add_calls' = Append(add_calls, TreeEntry(mode, id, name))
        /\ TreeFrame

\* std::make_unique<Tree>()
TreeNew ==
    /\ add_calls # <<>>
    /\ tree_obj' = EmptyTree
    /\ add_calls' = <<>>
    /\ TreeFrame

TreeNext == TreeAddEntry \/ TreeNew

SpecTree == TreeInit /\ [][TreeNext]_vars

\* the name git orders an entry by: a directory as if its name ended in "/"
GitKey(e) == IF e.mode = "Directory" THEN e.name \o <<"/">> ELSE e.name

GitSorted(es) ==
    \A i \in 1..Len(es), j \in 1..Len(es) :
        i < j => ~StrLess(GitKey(es[j]), GitKey(es[i]))

Reordered(calls) ==
    {[i \in 1..Len(calls) |-> calls[p[i]]] : p \in Permutations(1..Len(calls))}

\* C36, the order: the entries are sorted by name, a directory ordered as
\* if its name had a trailing "/".
C36_GitSorted == GitSorted(tree_obj.entries)

\* C36, the payload: the serialized payload is that of the entries in
\* their order.
C36_PayloadOfEntries == tree_obj.data = TreeData(tree_obj.entries)

\* C36, the id: the add_entry calls made, in any other order, give a tree
\* of the same id.
C36_SameOid ==
    \A calls \in Reordered(add_calls) :
        \A t \in TreesAfter(calls) : t.id = tree_obj.id

\* C36: after any sequence of add_entry calls the entries of a tree and its
\* serialized payload are sorted by name, directories ordered as if their
\* name had a trailing "/", and the same entries added in any order give
\* the same tree id.
C36_TreeOrdering ==
    /\ GitSorted(tree_obj.entries)
    /\ tree_obj.data = TreeData(tree_obj.entries)
    /\ \A calls \in Reordered(add_calls) :
           \A t \in TreesAfter(calls) : t.id = tree_obj.id

\* what holds of the code: the entries are sorted by their plain names, and
\* entries of different names with ids of 40 hex digits give one id in
\* every order
C36_SortedByPlainName ==
    /\ IsSortedByName(tree_obj.entries)
    /\ ((/\ \A i \in 1..Len(add_calls) : HasRawId(add_calls[i].id)
         /\ \A i \in 1..Len(add_calls), j \in 1..Len(add_calls) :
                i # j => add_calls[i].name # add_calls[j].name)
        => /\ tree_obj.data = TreeData(tree_obj.entries)
           /\ \A calls \in Reordered(add_calls) :
                  \A t \in TreesAfter(calls) : t.id = tree_obj.id)

\* --------------------------------------------- pack object headers
MaxPackSize == 300

\* PackObjectType of the four kinds add_object writes, as in the pack format
PackTypeInt(type) ==
    CASE type = "Commit" -> 1
      [] type = "Tree" -> 2
      [] type = "Blob" -> 3
      [] type = "Tag" -> 4

PackTypes == {"Commit", "Tree", "Blob", "Tag"}

PackSizes == 0..MaxPackSize \cup {16383, 16384, 2097152}

RECURSIVE SizeBytes(_)
\* the loop of write_object: (size & 0x7F) | 0x80 while size >= 0x80, then
\* the byte that is left
SizeBytes(size) ==
    IF size >= 128 THEN <<(size % 128) + 128>> \o SizeBytes(size \div 128)
    ELSE <<size>>

\* PackWriter::write_object(entry, data), the header: the first byte is
\* (type << 4) | (size & 0x0F) as a uint8_t, then the bytes of the loop
HeaderBytes(type, size) ==
    <<(PackTypeInt(type) * 16 + (size % 16)) % 256>> \o SizeBytes(size)

\* PackWriter::write_object(entry, data): what the call appends to the file
write_object(type, size, data) == HeaderBytes(type, size) \o data

\* pack_file_.read(&byte, 1) at pos: at the end of the file nothing is
\* stored and byte keeps its value
ReadByte(file, pos, byte) == IF pos <= Len(file) THEN file[pos] ELSE byte

RECURSIVE ReadSizeLoop(_, _, _, _, _, _)
\* the loop of read_object_at_offset: while (byte & 0x80) read a byte and
\* or its low seven bits into size at shift; the bits or-ed are above the
\* bits that are set, so the or is a sum.  fuel bounds the bytes read.
ReadSizeLoop(file, pos, byte, size, shift, fuel) ==
    IF byte >= 128 /\ fuel > 0
    THEN ReadSizeLoop(file, pos + 1, ReadByte(file, pos, byte),
                      size + (ReadByte(file, pos, byte) % 128) * (2 ^ shift),
                      shift + 7, fuel - 1)
    ELSE [size |-> size, pos |-> pos]

\* PackReader::read_object_at_offset(offset), the header: the type and the
\* size it decodes and the bytes it has read when the header is done
read_object_at_offset(file, offset) ==
    LET byte == ReadByte(file, offset + 1, 0)
        r == ReadSizeLoop(file, offset + 2, byte, byte % 16, 4, 3)
    IN [type |-> byte \div 16, size |-> r.size, consumed |-> r.pos - 1 - offset]

PackInit ==
    /\ PackIdle
    /\ tree_obj = EmptyTree
    /\ add_calls = <<>>
    /\ RemoteIdle
    /\ cin = [type |-> "blob", data |-> <<>>]
    /\ cout = [done |-> FALSE, hashed |-> <<>>, written |-> <<>>,
               decoded |-> Thrown("none"), reread |-> Thrown("none")]
    /\ ShaIdle
    /\ ObjInit
    /\ RefsIdle
    /\ RepoIdle

PackFrame ==
    UNCHANGED <<objvars, cin, cout, shavars, tree_obj, add_calls, remote,
                refvars, repovars>>

\* the compressed data that follows a header in the model
PackData == <<120, 156>>

\* PackWriter::write_object at offset 0 of a new file
PackWriteObject ==
    \E type \in PackTypes, size \in PackSizes :
        /\ pack.state = "idle"
        /\ pack' = [pack EXCEPT !.type = PackTypeInt(type), !.size = size,
                                !.bytes = write_object(type, size, PackData),
                                !.state = "written"]
        /\ PackFrame

\* PackReader::read_object_at_offset(0) of that file
PackReadObject ==
    /\ pack.state = "written"
    /\ pack' = [pack EXCEPT !.state = "read",
                            !.read_type = read_object_at_offset(pack.bytes, 0).type,
                            !.read_size = read_object_at_offset(pack.bytes, 0).size,
                            !.consumed = read_object_at_offset(pack.bytes, 0).consumed]
    /\ PackFrame

\* the next file
PackNew ==
    /\ pack.state = "read"
    /\ pack' = NoPack
    /\ PackFrame

PackNext == PackWriteObject \/ PackReadObject \/ PackNew

SpecPack == PackInit /\ [][PackNext]_vars

\* the bytes of the file that are the header of the object written
HeaderLength == Len(pack.bytes) - Len(PackData)

\* C37, the type: the type read is the type written.
C37_TypeRoundTrip == pack.state = "read" => pack.read_type = pack.type

\* C37, the size: the size read is the size written.
C37_SizeRoundTrip == pack.state = "read" => pack.read_size = pack.size

\* C37, the bytes: the reader consumes exactly the header bytes written.
C37_HeaderConsumed == pack.state = "read" => pack.consumed = HeaderLength

\* C37: for every object type and size the type and the size decoded by
\* read_object_at_offset from the header write_object wrote are the ones
\* written, and the reader consumes exactly the header bytes.
C37_HeaderRoundTrip ==
    pack.state = "read"
    => /\ pack.read_type = pack.type
       /\ pack.read_size = pack.size
       /\ pack.consumed = Len(pack.bytes) - Len(PackData)

\* what holds of the code: the reader takes one byte, the type is the one
\* written and the size is the one written modulo 16
C37_FirstByteOnly ==
    pack.state = "read"
    => /\ pack.read_type = pack.type
       /\ pack.read_size = pack.size % 16
       /\ pack.consumed = 1
       /\ HeaderLength >= 2

\* ------------------------------------------------- the reference cache
\* what resolving the file of a reference yields, with no cache
FileValue(files, name) ==
    read_ref_file(files, get_ref_path(name).path, Fuel(files))

\* C38, the entries: every entry of the reference cache, the one of HEAD
\* included, is the id that resolving the file of its name yields.
C38_EntriesMatchFiles ==
    \A n \in DOMAIN ref_cache : FileValue(reffiles, n) = Some(ref_cache[n])

\* C38, HEAD: read_ref("HEAD") and resolve_ref("HEAD") return what
\* get_head() returns.
C38_HeadAgrees ==
    get_head(ref_cache, reffiles).ok
    => /\ read_ref(ref_cache, reffiles, HeadName)
              = Some(get_head(ref_cache, reffiles).val)
       /\ resolve_ref(ref_cache, reffiles, HeadName).ok
       /\ resolve_ref(ref_cache, reffiles, HeadName).val
              = get_head(ref_cache, reffiles).val

\* C38: after any sequence of reference operations and commits on one Refs
\* instance every entry of the reference cache equals the id that resolving
\* its file yields, and read_ref("HEAD") and resolve_ref("HEAD") agree with
\* get_head().
C38_CacheCoherent ==
    /\ \A n \in DOMAIN ref_cache : FileValue(reffiles, n) = Some(ref_cache[n])
    /\ get_head(ref_cache, reffiles).ok
       => /\ read_ref(ref_cache, reffiles, HeadName)
                 = Some(get_head(ref_cache, reffiles).val)
          /\ resolve_ref(ref_cache, reffiles, HeadName).ok
          /\ resolve_ref(ref_cache, reffiles, HeadName).val
                 = get_head(ref_cache, reffiles).val

\* every reference file holds a symbolic line or an object id: no branch is
\* left with the empty value Repository::init gives refs/heads/master
AllBranchesBorn ==
    \A r \in DOMAIN reffiles : IsSymLine(reffiles[r]) \/ IsSha1Line(reffiles[r])

\* C38, in the states where every branch has a commit: every entry of the
\* reference cache, the one of HEAD included, equals the id that resolving
\* its file yields, and read_ref("HEAD") and resolve_ref("HEAD") agree with
\* get_head().
C38_CoherentOnceBorn ==
    AllBranchesBorn
    => /\ \A n \in DOMAIN ref_cache : FileValue(reffiles, n) = Some(ref_cache[n])
       /\ get_head(ref_cache, reffiles).ok
          => /\ read_ref(ref_cache, reffiles, HeadName)
                    = Some(get_head(ref_cache, reffiles).val)
             /\ resolve_ref(ref_cache, reffiles, HeadName).ok
             /\ resolve_ref(ref_cache, reffiles, HeadName).val
                    = get_head(ref_cache, reffiles).val

\* ------------------------------------- index calls that fail, specification
\* entries_.erase(entries_.begin() + n) for the position n that path_index_
\* holds.  A position past the last entry is undefined behaviour: the vector
\* destroys its last element, or the process is ended.
EraseOutcomes(es, i) ==
    IF i <= Len(es) THEN {[aborted |-> FALSE, es |-> RemoveAt(es, i)]}
    ELSE {[aborted |-> TRUE, es |-> es]}
         \cup {[aborted |-> FALSE, es |-> SubSeq(es, 1, Len(es) - 1)] :
                  x \in IF es = <<>> THEN {} ELSE {1}}

\* the erase of the entry of path, if path_index_ has one
ErasedEntry(path) ==
    IF path \in DOMAIN path_index THEN EraseOutcomes(entries, path_index[path])
    ELSE {[aborted |-> FALSE, es |-> entries]}

\* the process was ended inside a call: the next one loads the index file
IndexAborted(op, path) ==
    /\ entries' = index_load(indexfile)
    /\ path_index' = update_path_index(index_load(indexfile))
    /\ lastref' = Called(op, path, <<"aborted">>, FALSE)

\* Index::add_entry(path, blob_id, mode), o being the outcome of its erase:
\* when stat fails the call throws after the erase and before
\* update_path_index
add_entry_call(op, path, blob_id, mode, o) ==
    IF o.aborted THEN IndexAborted(op, path)
    ELSE IF path \notin DOMAIN worktree
    THEN /\ entries' = o.es
         /\ path_index' = path_index
         /\ lastref' = Called(op, path, blob_id, FALSE)
    ELSE /\ entries' = Append(o.es, IndexEntry(path, blob_id, mode,
                                               worktree[path].mtime,
                                               Len(worktree[path].data)))
         /\ path_index' = update_path_index(
                Append(o.es, IndexEntry(path, blob_id, mode,
                                        worktree[path].mtime,
                                        Len(worktree[path].data))))
         /\ lastref' = Called(op, path, blob_id, TRUE)

\* Index::add_file(filepath): hash_file and stat throw for a missing file
\* before add_entry is called
add_file_call(filepath, o) ==
    IF filepath \notin DOMAIN worktree
    THEN /\ UNCHANGED <<entries, path_index>>
         /\ lastref' = Called("add_file", filepath, <<>>, FALSE)
    ELSE add_entry_call("add_file", filepath, hash_file(filepath), "Regular", o)

\* Index::remove_entry(path), o being the outcome of its erase
remove_entry_call(path, o) ==
    IF path \notin DOMAIN path_index
    THEN /\ UNCHANGED <<entries, path_index>>
         /\ lastref' = Called("remove_entry", path, <<>>, TRUE)
    ELSE IF o.aborted THEN IndexAborted("remove_entry", path)
    ELSE /\ entries' = o.es
         /\ path_index' = update_path_index(o.es)
         /\ lastref' = Called("remove_entry", path, <<>>, TRUE)

\* Index::clear
clear ==
    /\ entries' = <<>>
    /\ path_index' = <<>>
    /\ lastref' = Called("clear", <<>>, <<>>, TRUE)

IndexCallFrame == UNCHANGED <<objvars, codecvars, reffiles, ref_cache, reflog>>

FailWriteFile ==
    \E path \in IndexPaths, data \in ContentInputs :
        /\ path \notin DOMAIN worktree
        /\ worktree' = (path :> [data |-> data, mtime |-> 1]) @@ worktree
        /\ UNCHANGED <<entries, path_index, indexfile, lastref>>
        /\ IndexCallFrame

\* the file is removed from the working directory
FailDeleteFile ==
    \E path \in IndexPaths :
        /\ path \in DOMAIN worktree
        /\ worktree' = Without(worktree, path)
        /\ UNCHANGED <<entries, path_index, indexfile, lastref>>
        /\ IndexCallFrame

FailAddEntry ==
    \E path \in IndexPaths, data \in ContentInputs :
        \E o \in ErasedEntry(path) :
            /\ add_entry_call("add_entry", path, SHA1hash(data), "Regular", o)
            /\ UNCHANGED <<worktree, indexfile>>
            /\ IndexCallFrame

FailAddFile ==
    \E path \in IndexPaths :
        \E o \in ErasedEntry(path) :
            /\ add_file_call(path, o)
            /\ UNCHANGED <<worktree, indexfile>>
            /\ IndexCallFrame

FailRemoveEntry ==
    \E path \in IndexPaths :
        \E o \in ErasedEntry(path) :
            /\ remove_entry_call(path, o)
            /\ UNCHANGED <<worktree, indexfile>>
            /\ IndexCallFrame

FailClear ==
    /\ clear
    /\ UNCHANGED <<worktree, indexfile>>
    /\ IndexCallFrame

FailSave ==
    /\ indexfile' = index_save(entries)
    /\ UNCHANGED <<worktree, entries, path_index, lastref>>
    /\ IndexCallFrame

IndexFailNext ==
    \/ FailWriteFile
    \/ FailDeleteFile
    \/ FailAddEntry
    \/ FailAddFile
    \/ FailRemoveEntry
    \/ FailClear
    \/ FailSave

SpecIndexFail == RefsInit /\ [][IndexFailNext]_vars

PathsOf(es) == {es[i].path : i \in 1..Len(es)}

\* has_entry(p) is true iff an entry of path p exists, and get_entry(p)
\* returns that entry
TableExact(es, table) ==
    /\ DOMAIN table = PathsOf(es)
    /\ \A p \in DOMAIN table : table[p] <= Len(es) /\ es[table[p]].path = p

\* C39, the table: the path lookup table maps exactly the paths of the
\* entries to their positions.
C39_TableExact == TableExact(entries, path_index)

\* C39, a failed call: a call that throws leaves the set of entries
\* unchanged.
C39_ThrowKeepsEntries ==
    [][(/\ lastref'.op \in {"add_entry", "add_file", "remove_entry"}
        /\ ~lastref'.ok
        /\ lastref'.target # <<"aborted">>)
       => {entries[i] : i \in 1..Len(entries)}
              = {entries'[i] : i \in 1..Len(entries')}]_vars

\* C39: after any sequence of add_entry, add_file, remove_entry and clear
\* calls, those that throw included, the path lookup table maps exactly the
\* paths of the entries to their positions, and a call that throws leaves
\* the set of entries unchanged.
C39_IndexConsistent ==
    [][/\ TableExact(entries', path_index')
       /\ (/\ lastref'.op \in {"add_entry", "add_file", "remove_entry"}
           /\ ~lastref'.ok
           /\ lastref'.target # <<"aborted">>)
          => {entries[i] : i \in 1..Len(entries)}
                 = {entries'[i] : i \in 1..Len(entries')}]_vars

\* ---------------------------------------------------- remotes, specification
\* the exchanges and the lines the model counts exactly; from there on the
\* count only tells an exchange from the next one (it alternates between
\* MaxExchanges and MaxExchanges + 1)
MaxExchanges == 3

Counted(n) == IF n > MaxExchanges + 1 THEN MaxExchanges ELSE n

\* std::string::substr(0, n)
Substr0(str, n) == SubSeq(str, 1, IF n < Len(str) THEN n ELSE Len(str))

\* Remote::detect_transport_type: the prefixes are compared as written, the
\* seven characters of the url with "ssh://" and with "git://"
detect_transport_type(url) ==
    IF Substr0(url, 8) = <<"h", "t", "t", "p", "s", ":", "/", "/">> THEN "HTTPS"
    ELSE IF Substr0(url, 7) = <<"h", "t", "t", "p", ":", "/", "/">> THEN "HTTP"
    ELSE IF Substr0(url, 4) = <<"g", "i", "t", "@">> THEN "SSH"
    ELSE IF Substr0(url, 7) = <<"s", "s", "h", ":", "/", "/">> THEN "SSH"
    ELSE IF Substr0(url, 7) = <<"g", "i", "t", ":", "/", "/">> THEN "GitProtocol"
    ELSE "Local"

\* Remote::create_transport: the class of the transport, "none" for nullptr
create_transport(type) ==
    CASE type \in {"HTTP", "HTTPS"} -> "http"
      [] type \in {"SSH", "GitProtocol"} -> "ssh"
      [] OTHER -> "none"

RemoteUrls ==
    {<<"h", "t", "t", "p", "s", ":", "/", "/", "x">>,
     <<"h", "t", "t", "p", ":", "/", "/", "x">>,
     <<"g", "i", "t", "@", "x">>,
     <<"s", "s", "h", ":", "/", "/", "x">>,
     <<"g", "i", "t", ":", "/", "/", "x">>,
     <<"/", "x">>}

RemoteOps == {"fetch", "push", "get_remote_refs"}

\* the send_command and write_data calls a protocol method makes before it
\* reads: want and done; three lines, the pack and the flush; the service
RequestExchanges(op) ==
    CASE op = "fetch" -> 2
      [] op = "push" -> 5
      [] op = "get_remote_refs" -> 1

\* what send_command("") returns: SSHTransport always the same text;
\* HTTPTransport the body of the response, or "" when the transfer failed
PacketLines(transport) ==
    IF transport = "ssh" THEN {"SSH command response"}
    ELSE {"", "0000", "PACK", "line"}

\* the condition that ends the read loop of a protocol method
EndsLoop(op, line) ==
    CASE op = "get_remote_refs" -> line = "" \/ line = "0000"
      [] op = "fetch" -> line = "" \/ line = "PACK"
      [] op = "push" -> line = ""

\* the value the call returns once the protocol method has returned
ReturnValue(op, lines) ==
    CASE op = "fetch" -> "true"
      [] op = "push" -> IF lines > 0 THEN "true" ELSE "false"
      [] op = "get_remote_refs" -> "refs"

RemoteInit ==
    /\ RemoteIdle
    /\ tree_obj = EmptyTree
    /\ add_calls = <<>>
    /\ PackIdle
    /\ cin = [type |-> "blob", data |-> <<>>]
    /\ cout = [done |-> FALSE, hashed |-> <<>>, written |-> <<>>,
               decoded |-> Thrown("none"), reread |-> Thrown("none")]
    /\ ShaIdle
    /\ ObjInit
    /\ RefsIdle
    /\ RepoIdle

RemoteFrame ==
    UNCHANGED <<objvars, cin, cout, shavars, tree_obj, add_calls, pack,
                refvars, repovars>>

\* Remote::set_url
RemoteSetUrl ==
    \E url \in RemoteUrls :
        /\ remote.pc = "idle"
        /\ remote' = [remote EXCEPT !.url = url]
        /\ RemoteFrame

\* Remote::fetch, Remote::push or Remote::get_remote_refs is called
RemoteCall ==
    \E op \in RemoteOps :
        /\ remote.pc = "idle"
        /\ remote' = [remote EXCEPT !.op = op, !.pc = "called", !.exchanges = 0,
                                    !.lines = 0, !.result = "none"]
        /\ RemoteFrame

\* Remote::connect; when it returns false the call returns at once
RemoteConnect ==
    /\ remote.pc = "called"
    /\ remote' =
         IF remote.protocol = "open" THEN [remote EXCEPT !.pc = "session"]
         ELSE IF create_transport(detect_transport_type(remote.url)) = "none"
         THEN [remote EXCEPT !.pc = "idle",
                             !.result = IF remote.op = "get_remote_refs"
                                        THEN "empty" ELSE "false"]
         ELSE [remote EXCEPT !.protocol = "open", !.pc = "session",
                             !.transport =
                                 create_transport(detect_transport_type(remote.url))]
    /\ RemoteFrame

\* the protocol method connects its transport and sends its request;
\* HTTPTransport::connect fails when curl_easy_init does, the method then
\* returns nothing and the call disconnects and returns
ProtocolRequest ==
    \E connects \in IF remote.transport = "http" THEN BOOLEAN ELSE {TRUE} :
        /\ remote.pc = "session"
        /\ remote' =
             IF connects
             THEN [remote EXCEPT !.connected = TRUE, !.pc = "read",
                                 !.exchanges = Counted(RequestExchanges(remote.op))]
             ELSE [remote EXCEPT !.connected = FALSE, !.pc = "idle",
                                 !.protocol = "null", !.transport = "none",
                                 !.result = ReturnValue(remote.op, 0)]
        /\ RemoteFrame

\* one read_packet_line of the read loop that does not end the loop: the
\* line is appended and the next one is read
ProtocolReadLine ==
    \E line \in PacketLines(remote.transport) :
        /\ remote.pc = "read"
        /\ ~EndsLoop(remote.op, line)
        /\ remote' = [remote EXCEPT !.exchanges = Counted(@ + 1),
                                    !.lines = Counted(@ + 1)]
        /\ RemoteFrame

\* the read_packet_line that ends the loop: transport_->disconnect(), the
\* protocol method returns, Remote::disconnect(), the call returns
ProtocolReadEnd ==
    \E line \in PacketLines(remote.transport) :
        /\ remote.pc = "read"
        /\ EndsLoop(remote.op, line)
        /\ remote' = [remote EXCEPT !.exchanges = Counted(@ + 1),
                                    !.lines = IF line = "" THEN @ ELSE Counted(@ + 1),
                                    !.connected = FALSE, !.protocol = "null",
                                    !.transport = "none", !.pc = "idle",
                                    !.result =
                                        ReturnValue(remote.op,
                                                    IF line = "" THEN remote.lines
                                                    ELSE remote.lines + 1)]
        /\ RemoteFrame

RemoteStep == RemoteConnect \/ ProtocolRequest \/ ProtocolReadLine \/ ProtocolReadEnd

RemoteNext ==
    \/ RemoteSetUrl
    \/ RemoteCall
    \/ RemoteConnect
    \/ ProtocolRequest
    \/ ProtocolReadLine
    \/ ProtocolReadEnd

\* the thread that made the call keeps running, and a transfer over http
\* that can fail or end does so in the end
SpecRemote ==
    /\ RemoteInit
    /\ [][RemoteNext]_vars
    /\ WF_vars(RemoteStep)
    /\ WF_vars(ProtocolReadEnd)

\* C40, the return: when a call has returned, no protocol session is open.
C40_DisconnectedOnReturn ==
    (remote.pc = "idle" /\ remote.result # "none")
    => remote.protocol = "null" /\ ~remote.connected

\* C40: every call of fetch, push or get_remote_refs returns, whatever the
\* scheme of the url, and when it has returned no protocol session is open.
C40_SessionEnds ==
    (remote.pc = "called")
    ~> (remote.pc = "idle" /\ remote.protocol = "null")

\* C40 for the urls that get no SSHTransport
C40_SessionEndsWithoutSsh ==
    (remote.pc = "called"
     /\ create_transport(detect_transport_type(remote.url)) # "ssh")
    ~> (remote.pc = "idle" /\ remote.protocol = "null")

====
